---- MODULE Spec2Model ----
(***************************************************************************)
(* Model of the Java integration of multilspy: the handshake that          *)
(* EclipseJDTLS.start_server drives against the Eclipse JDT language       *)
(* server (eclipse_jdtls.py), the inbound handlers it registers, and the   *)
(* reader/dispatch loop that delivers the server's messages to them.       *)
(* Further specifications model the parts the handshake takes as given:    *)
(* ParamsSpec, the construction of the initialize parameters;              *)
(* DispatchSpec, the Dispatch Core serving concurrent callers;             *)
(* DocSpec, the document state of the Operation Facade;                    *)
(* RunnerSpec, MCPRunner and its lsp.toml configuration (mcp_runner.py).   *)
(***************************************************************************)
EXTENDS Bags, FiniteSets, Integers, Sequences, TLC

\* Number of unsolicited messages (requests and notifications) the
\* language server process sends during one session.
MaxPush == 2

VARIABLES
    pc,                                     \* position of the start_server coroutine
    error,                                  \* exception with which start_server ended
    handlers,                               \* HandlerRegistration: the two namespaces
    proc,                                   \* the external server process
    sent,                                   \* frames the client wrote, in order
    pending,                                \* method of the call the client awaits
    callResult,                             \* resolution slot of that call
    init_response,                          \* local init_response of start_server
    intellicode_enable_result,              \* local intellicode_enable_result
    service_ready_event,                    \* readiness gates (asyncio.Event)
    intellicode_enable_command_available,
    initialize_searcher_command_available,
    completions_available,
    inbound,                                \* frames written by the server, not yet read
    srvPending,                             \* client requests the server has not answered
    pushed,                                 \* unsolicited messages sent so far
    readerDone,                             \* the reader loop has seen the stream end
    tasks,                                  \* handler invocations scheduled, not yet run
    unhandled,                              \* methods that arrived with no handler
    arrived,                                \* first arrivals of the handshake messages
    setOnSet,                               \* a handler called set() on a gate already set
    \* _get_initialize_params
    repository_absolute_path,               \* its argument
    cwd,                                    \* the working directory of the client
    pid,                                    \* os.getpid()
    init_params_config,                     \* the InitializeParamsConfig it fills in
    initialize_params,                      \* what it returned, or how it ended
    \* Dispatch Core with concurrent callers
    idGenerator,                            \* the next fresh correlation id
    pendingCalls,                           \* table of PendingCall, keyed by id
    outcomes,                               \* how each call issued so far has ended
    requested,                              \* requests the server has not answered
    stream,                                 \* frames from the server, not yet decoded
    process,                                \* the external process
    session,                                \* Session state
    delivered,                              \* ids of the responses decoded, in order
    carried,                                \* payload of the response written per id
    late,                                   \* ids whose response found no PendingCall
    failedOnClose,                          \* ids pending when the stream ended
    \* Operation Facade
    documents,                              \* DocumentState per uri, when open
    disk,                                   \* content of each file
    written,                                \* frames written for documents, in order
    \* MCPRunner
    lsp_toml,                               \* the file lsp.toml in the workspace root
    runner,                                 \* whether MCPRunner(...) has been called
    config,                                 \* self.config
    loadedBy,                               \* the method that assigned self.config
    language_servers,                       \* self.language_servers
    attempts,                               \* servers created so far, and how each start went
    ensured,                                \* what _ensure_configured returned last
    lastResult,                             \* how the last tool call ended
    calls,                                  \* calls of tools and of _ensure_configured so far
    \* LSPConfig.from_dict
    toml_dict,                              \* its argument, below the key lsp
    lsp_config,                             \* what it returned, or that it raised
    \* EclipseJDTLS.setupRuntimeDependencies
    multilspy_config,                       \* the MultilspyConfig of the server
    runtime_deps,                           \* runtime_dependencies.json, parsed
    download_plans,                         \* the DownloadPlan objects, in dictionary order
    dependency_states,                      \* config_manager.dependency_states
    downloader,                             \* position of download_all_pending
    downloads,                              \* the calls of download_dependency that ended
    returns,                                \* the calls of download_all_pending that ended
    setup,                                  \* how setupRuntimeDependencies ended
    lookups,                                \* what _get_dependency_state returned, per name
    process_launch_info,                    \* the ProcessLaunchInfo of the server
    \* EclipseJDTLS._apply_version_overrides
    runtime_dependency_paths,               \* self.runtime_dependency_paths
    params_given,                           \* its argument, as _get_initialize_params fills it
    params_applied,                         \* its argument when it returned
    \* RuntimeDependenciesConfig and RuntimeDependency
    pydantic,                               \* the pydantic release of the build
    held,                                   \* the object the caller holds
    trail,                                  \* the calls made on the way to it
    is_leaf_said                            \* what is_leaf() answered last

jdtlsVars == <<pc, error, handlers, proc, sent, pending, callResult, init_response,
               intellicode_enable_result, service_ready_event,
               intellicode_enable_command_available,
               initialize_searcher_command_available, completions_available,
               inbound, srvPending, pushed, readerDone, tasks, unhandled, arrived,
               setOnSet>>

paramsVars == <<repository_absolute_path, cwd, pid, init_params_config,
                initialize_params>>

dispatchVars == <<idGenerator, pendingCalls, outcomes, requested, stream,
                  process, session, delivered, carried, late, failedOnClose>>

docVars == <<documents, disk, written>>

runnerVars == <<lsp_toml, runner, config, loadedBy, language_servers, attempts, ensured,
                lastResult, calls>>

fromDictVars == <<toml_dict, lsp_config>>

\* The parts that manage configuration files and runtime dependencies.
setupVars == <<multilspy_config, runtime_deps, download_plans, dependency_states,
               downloader, downloads, returns, setup, lookups,
               process_launch_info>>

overrideVars == <<runtime_dependency_paths, params_given, params_applied>>

treeVars == <<pydantic, held, trail, is_leaf_said>>

dependencyVars == <<fromDictVars, setupVars, overrideVars, treeVars>>

\* What the actions of the handshake leave alone.
restVars == <<paramsVars, dispatchVars, docVars, runnerVars, dependencyVars>>

\* What the actions of _get_initialize_params leave alone.
notParams == <<jdtlsVars, dispatchVars, docVars, runnerVars, dependencyVars>>

\* What the actions of the Dispatch Core with concurrent callers leave alone.
notDispatch == <<jdtlsVars, paramsVars, docVars, runnerVars, dependencyVars>>

\* What the actions of the Operation Facade leave alone.
notDoc == <<jdtlsVars, paramsVars, dispatchVars, runnerVars, dependencyVars>>

\* What the actions of MCPRunner leave alone.
notRunner == <<jdtlsVars, paramsVars, dispatchVars, docVars, dependencyVars>>

\* The handshake, the dispatch core, the facade and MCPRunner.
serverVars == <<jdtlsVars, paramsVars, dispatchVars, docVars, runnerVars>>

\* What the action of LSPConfig.from_dict leaves alone.
notFromDict == <<serverVars, setupVars, overrideVars, treeVars>>

\* What the actions of setupRuntimeDependencies leave alone.
notSetup == <<serverVars, fromDictVars, overrideVars, treeVars>>

\* What the actions of _apply_version_overrides leave alone, besides the
\* configuration and the states setupRuntimeDependencies left.
notOverride == <<serverVars, fromDictVars, setupVars, treeVars>>

\* What the calls on RuntimeDependenciesConfig and RuntimeDependency leave
\* alone, besides the parsed runtime_dependencies.json.
notTree == <<serverVars, fromDictVars, setupVars, overrideVars>>

vars == <<jdtlsVars, restVars>>

gateVars == <<service_ready_event, intellicode_enable_command_available,
              initialize_searcher_command_available, completions_available>>

clientVars == <<pc, error, handlers, sent, pending, callResult, init_response,
                intellicode_enable_result>>

----------------------------------------------------------------------------
(* Values *)

NoValue == [status |-> "none"]

Range(s) == {s[i] : i \in 1..Len(s)}

\* The methods start_server registers handlers for, by namespace.
JdtlsRequestHandlers ==
    {"client/registerCapability", "workspace/executeClientCommand"}

\* As JdtlsNotificationHandlers, without language/actionableNotification.
JdtlsNotificationHandlers_NoActionable ==
    {"language/status", "window/logMessage", "$/progress",
     "textDocument/publishDiagnostics"}

JdtlsNotificationHandlers ==
    {"language/status", "window/logMessage", "$/progress",
     "textDocument/publishDiagnostics", "language/actionableNotification"}

JdtlsHandlers ==
    [request |-> JdtlsRequestHandlers, notification |-> JdtlsNotificationHandlers]

\* The trigger characters the completion registration must carry.
TriggerCharacters == <<".", "@", "#", "*", " ">>

\* Registrations a client/registerCapability request may carry.
ComplGood ==
    [method |-> "textDocument/completion",
     registerOptions |-> [resolveProvider |-> TRUE,
                          triggerCharacters |-> TriggerCharacters]]
ComplNoResolve ==
    [method |-> "textDocument/completion",
     registerOptions |-> [resolveProvider |-> FALSE,
                          triggerCharacters |-> TriggerCharacters]]
ComplOtherTriggers ==
    [method |-> "textDocument/completion",
     registerOptions |-> [resolveProvider |-> TRUE,
                          triggerCharacters |-> <<".">>]]
ExecEnable ==
    [method |-> "workspace/executeCommand",
     registerOptions |-> [commands |-> {"java.intellicode.enable",
                                        "java.edit.organizeImports"}]]
ExecOther ==
    [method |-> "workspace/executeCommand",
     registerOptions |-> [commands |-> {"java.edit.organizeImports"}]]
Formatting ==
    [method |-> "textDocument/formatting",
     registerOptions |-> [documentSelector |-> "java"]]

\* The params.registrations lists the server sends.
RegistrationLists ==
    { <<ExecEnable>>, <<ExecOther>>, <<Formatting, ComplGood>>,
      <<ComplOtherTriggers, ExecEnable>>, <<ExecEnable, ComplNoResolve>> }

StatusParams ==
    { [type |-> "ServiceReady", message |-> "ServiceReady"],
      [type |-> "Started", message |-> "ServiceReady"] }

Request(m, p) == [kind |-> "request", method |-> m, params |-> p]
Notification(m, p) == [kind |-> "notification", method |-> m, params |-> p]
Response(m, r) == [kind |-> "response", method |-> m, params |-> r]
EndOfStream == [kind |-> "eof", method |-> "", params |-> <<>>]

\* Unsolicited messages of the server.
PushMsgs ==
    {Request("client/registerCapability", r) : r \in RegistrationLists}
    \cup {Notification("language/status", s) : s \in StatusParams}
    \cup {Notification(m, <<>>) :
            m \in {"window/logMessage", "$/progress",
                   "textDocument/publishDiagnostics",
                   "language/actionableNotification", "telemetry/event"}}
    \cup {Request("workspace/executeClientCommand",
                  [command |-> "_java.reloadBundles.command",
                   arguments |-> <<>>])}

\* Capability sets of an initialize response: the one the client expects,
\* and one for each assertion it can fail.
Capabilities ==
    { [change |-> 2, completionProvider |-> FALSE, executeCommandProvider |-> FALSE],
      [change |-> 1, completionProvider |-> FALSE, executeCommandProvider |-> FALSE],
      [change |-> 2, completionProvider |-> TRUE, executeCommandProvider |-> FALSE],
      [change |-> 2, completionProvider |-> FALSE, executeCommandProvider |-> TRUE] }

\* Results with which the server answers a request of the client.
Results(m) ==
    CASE m = "initialize" -> Capabilities
      [] m = "workspace/executeCommand" -> BOOLEAN
      [] OTHER -> {<<>>}

----------------------------------------------------------------------------
(* Pure functions of start_server *)

\* As CapabilitiesAccepted, without the executeCommandProvider assertion.
CapabilitiesAccepted_NoCommandCheck(r) ==
    /\ r.change = 2
    /\ ~r.completionProvider

\* The three assertions on the initialize response.
CapabilitiesAccepted(r) ==
    /\ r.change = 2
    /\ ~r.completionProvider
    /\ ~r.executeCommandProvider

\* As register_capability_handler, with an event that wakes only a waiter
\* already suspended on it: set() with nobody waiting is lost.
RECURSIVE register_capability_handler_WakeOnly(_, _)
register_capability_handler_WakeOnly(registrations, g) ==
    IF registrations = <<>> THEN [g |-> g, raised |-> FALSE]
    ELSE LET registration == Head(registrations)
             isCompl == registration.method = "textDocument/completion"
             complOk ==
                 /\ registration.registerOptions.resolveProvider = TRUE
                 /\ registration.registerOptions.triggerCharacters = TriggerCharacters
             g1 == IF isCompl THEN [g EXCEPT !.completions_available = TRUE] ELSE g
             g2 == IF /\ registration.method = "workspace/executeCommand"
                      /\ "java.intellicode.enable"
                             \in registration.registerOptions.commands
                      /\ pc = "wait_intellicode"
                   THEN [g1 EXCEPT !.intellicode_enable_command_available = TRUE]
                   ELSE g1
         IN  IF isCompl /\ ~complOk THEN [g |-> g, raised |-> TRUE]
             ELSE register_capability_handler_WakeOnly(Tail(registrations), g2)

\* As register_capability_handler, without the test for the command name.
RECURSIVE register_capability_handler_AnyCommand(_, _)
register_capability_handler_AnyCommand(registrations, g) ==
    IF registrations = <<>> THEN [g |-> g, raised |-> FALSE]
    ELSE LET registration == Head(registrations)
             isCompl == registration.method = "textDocument/completion"
             complOk ==
                 /\ registration.registerOptions.resolveProvider = TRUE
                 /\ registration.registerOptions.triggerCharacters = TriggerCharacters
             g1 == IF isCompl THEN [g EXCEPT !.completions_available = TRUE] ELSE g
             g2 == IF registration.method = "workspace/executeCommand"
                   THEN [g1 EXCEPT !.intellicode_enable_command_available = TRUE]
                   ELSE g1
         IN  IF isCompl /\ ~complOk THEN [g |-> g, raised |-> TRUE]
             ELSE register_capability_handler_AnyCommand(Tail(registrations), g2)

\* register_capability_handler: g holds the two gates it may set; the
\* result holds the gates afterwards and whether an assertion failed, which
\* ends the loop over the registrations.
RECURSIVE register_capability_handler(_, _)
register_capability_handler(registrations, g) ==
    IF registrations = <<>> THEN [g |-> g, raised |-> FALSE]
    ELSE LET registration == Head(registrations)
             isCompl == registration.method = "textDocument/completion"
             complOk ==
                 /\ registration.registerOptions.resolveProvider = TRUE
                 /\ registration.registerOptions.triggerCharacters = TriggerCharacters
             g1 == IF isCompl THEN [g EXCEPT !.completions_available = TRUE] ELSE g
             g2 == IF /\ registration.method = "workspace/executeCommand"
                      /\ "java.intellicode.enable"
                             \in registration.registerOptions.commands
                   THEN [g1 EXCEPT !.intellicode_enable_command_available = TRUE]
                   ELSE g1
         IN  IF isCompl /\ ~complOk THEN [g |-> g, raised |-> TRUE]
             ELSE register_capability_handler(Tail(registrations), g2)

\* As lang_status_handler, testing for the type "Started".
lang_status_handler_Started(params, ready) ==
    IF params.type = "Started" /\ params.message = "ServiceReady"
    THEN TRUE ELSE ready

\* As lang_status_handler, assigning the test to the gate instead of
\* setting it.
lang_status_handler_Assign(params, ready) ==
    params.type = "ServiceReady" /\ params.message = "ServiceReady"

\* lang_status_handler: the value of service_ready_event afterwards.
lang_status_handler(params, ready) ==
    IF params.type = "ServiceReady" /\ params.message = "ServiceReady"
    THEN TRUE ELSE ready

----------------------------------------------------------------------------
(* Paths and the initialize parameters *)

\* Longest path, in components, given as the repository root.
MaxDepth == 2

\* Largest process id.
MaxPid == 3

PathComponents == {"home", "repo", "src"}

\* A path: its components, and whether it starts at the root directory.
Paths(depth) ==
    { [absolute |-> a, parts |-> p] :
        a \in BOOLEAN, p \in UNION {[1..n -> PathComponents] : n \in 1..depth} }

WorkingDirectories ==
    { [absolute |-> TRUE, parts |-> <<"home">>],
      [absolute |-> TRUE, parts |-> <<"src", "repo">>] }

\* os.path.isabs, os.path.abspath, os.path.basename, pathlib.Path.as_uri
isabs(path) == path.absolute

abspath(path, dir) ==
    IF path.absolute THEN path
    ELSE [absolute |-> TRUE, parts |-> dir.parts \o path.parts]

basename(path) == path.parts[Len(path.parts)]

as_uri(path) == [scheme |-> "file", path |-> path.parts]

\* A field of the parameters holds the text of a placeholder, or a value.
Placeholder(text) == [placeholder |-> text]
Value(v) == [value |-> v]

\* The fields of initialize_params.json that are substituted at run time,
\* as InitializeParamsConfig loads them.
InitializeParamsTemplate ==
    [processId |-> Placeholder("os.getpid()"),
     rootPath |-> Placeholder("repository_absolute_path"),
     rootUri |-> Placeholder("pathlib.Path(repository_absolute_path).as_uri()"),
     workspaceFolders |-> Placeholder("workspaceFolders")]

\* The methods InitializeParamsConfig defines.
InitializeParamsConfigMethods ==
    {"to_lsp_dict", "find_dynamic_substitutions", "_find_substitutions_recursive"}

NotCalled == [status |-> "none"]

ParamsInit ==
    /\ repository_absolute_path \in Paths(MaxDepth)
    /\ cwd \in WorkingDirectories
    /\ pid \in 1..MaxPid
    /\ init_params_config = InitializeParamsTemplate
    /\ initialize_params = NotCalled

ParamsIdle ==
    /\ repository_absolute_path = [absolute |-> TRUE, parts |-> <<"repo">>]
    /\ cwd = [absolute |-> TRUE, parts |-> <<"home">>]
    /\ pid = 1
    /\ init_params_config = InitializeParamsTemplate
    /\ initialize_params = NotCalled

----------------------------------------------------------------------------
(* The Dispatch Core with concurrent callers *)

\* Calls issued in one session.
MaxCalls == 3

\* What a response carries: a result, or an error.
Payloads == {[result |-> "a"], [result |-> "b"], [error |-> -32603]}

DispatchInit ==
    /\ idGenerator = 1
    /\ pendingCalls = {}
    /\ outcomes = <<>>
    /\ requested = {}
    /\ stream = <<>>
    /\ process = "running"
    /\ session = "Ready"
    /\ delivered = <<>>
    /\ carried = {}
    /\ late = {}
    /\ failedOnClose = {}

----------------------------------------------------------------------------
(* The Operation Facade *)

\* Frames written for documents in one session.
MaxWritten == 5

Uris == {"Foo.txt", "Bar.txt"}

Contents == {"abc", "abd"}

Closed == [open |-> FALSE]

DocInit ==
    /\ documents = [uri \in Uris |-> Closed]
    /\ disk = [uri \in Uris |-> "abc"]
    /\ written = <<>>

----------------------------------------------------------------------------
(* MCPRunner: lsp.toml *)

\* Calls of tools and of _ensure_configured in one session.
MaxToolCalls == 2

None == "None"

\* The values of the Language enum used here, and str.lower on the names
\* a file may give.
SupportedLanguages == {"java", "python", "rust"}

lower(name) == IF name = "Python" THEN "python" ELSE name

\* The languages the files name.
ConfiguredLanguages == {"java", "python"}

\* os.path.isdir
Directories == {"/proj", "/py"}
isdir(root) == root \in Directories

List(items) == [isList |-> TRUE, items |-> items]
NotAList == [isList |-> FALSE, items |-> <<>>]

\* A [lsp.<language>] table.
Section(roots, java_version, gradle_version) ==
    [roots |-> roots, java_version |-> java_version,
     gradle_version |-> gradle_version]

\* lsp.toml: missing, not parseable, or the dictionary tomllib loads.
Absent == [exists |-> FALSE]
Malformed == [exists |-> TRUE, parses |-> FALSE]
Toml(names, sections) ==
    [exists |-> TRUE, parses |-> TRUE,
     lsp |-> [language_servers |-> names, sections |-> sections]]

JavaToml ==
    Toml(<<"java">>, [l \in {"java"} |-> Section(List(<<"/proj">>), "21", "8.5")])

MixedToml ==
    Toml(<<"Python", "java", "python">>,
         [l \in {"java", "python"} |->
            IF l = "java" THEN Section(List(<<"/proj">>), None, "8.5")
            ELSE Section(List(<<"/py", "/proj">>), None, None)])

UnsupportedToml ==
    Toml(<<"java", "cobol">>,
         [l \in {"java"} |-> Section(List(<<"/proj">>), None, None)])

NoSectionToml == Toml(<<"java">>, [l \in {} |-> Section(List(<<>>), None, None)])

MissingRootToml ==
    Toml(<<"java">>,
         [l \in {"java"} |-> Section(List(<<"/proj", "/missing">>), None, None)])

RootsNotListToml ==
    Toml(<<"java">>, [l \in {"java"} |-> Section(NotAList, None, None)])

ValidTomlFiles == {JavaToml, MixedToml}

InvalidTomlFiles ==
    {Malformed, UnsupportedToml, NoSectionToml, MissingRootToml,
     RootsNotListToml}

Files == {Absent} \cup ValidTomlFiles \cup InvalidTomlFiles

NoConfig == [loaded |-> FALSE]

NoResult ==
    [call |-> 0, tool |-> "none", language |-> "none", status |-> "none",
     message |-> None, instance |-> 0]

RunnerStart ==
    /\ runner = "none"
    /\ config = NoConfig
    /\ loadedBy = "none"
    /\ language_servers = {}
    /\ attempts = <<>>
    /\ ensured = "none"
    /\ lastResult = NoResult
    /\ calls = 0

RunnerInit == lsp_toml \in Files /\ RunnerStart

RunnerIdle == lsp_toml = Absent /\ RunnerStart

----------------------------------------------------------------------------
(* LSPConfig.from_dict: the dictionaries it is given *)

\* Names in the list language_servers.
MaxNames == 2

ListedNames == {"java", "Python", "python", "cobol"}

NameLists == UNION {[1..n -> ListedNames] : n \in 0..MaxNames}

RootsChoices ==
    {NotAList, List(<<>>), List(<<"/proj">>), List(<<"/proj", "/missing">>),
     List(<<"/py", "/proj">>)}

SectionChoices == {Section(roots, None, None) : roots \in RootsChoices}

SectionMaps ==
    UNION {[languages -> SectionChoices] :
              languages \in SUBSET ConfiguredLanguages}

TomlDicts ==
    {[language_servers |-> names, sections |-> sections] :
        names \in NameLists, sections \in SectionMaps}

NotLoaded == [called |-> FALSE]

FromDictInit ==
    /\ toml_dict \in TomlDicts
    /\ lsp_config = NotLoaded

FromDictIdle ==
    /\ toml_dict = JavaToml.lsp
    /\ lsp_config = NotLoaded

----------------------------------------------------------------------------
(* Runtime dependencies: keys, runtime_dependencies.json, configurations *)

\* Calls of download_all_pending on one config manager.
MaxDownloadCalls == 2

\* A str is the sequence of its pieces; a piece is never part of another
\* piece.  "gradle_versions" is the piece "gradle" and the piece "_versions".
Str(piece) == <<piece>>
Dot == Str(".")
vscode_java == Str("vscode-java")
intellicode == Str("intellicode")
gradle == Str("gradle")
gradle_versions == gradle \o Str("_versions")
jdk_versions == Str("jdk") \o Str("_versions")
platform_agnostic == Str("platform-agnostic")

\* needle in haystack
contains(haystack, needle) ==
    \E i \in 0..(Len(haystack) - Len(needle)) :
        SubSeq(haystack, i + 1, i + Len(needle)) = needle

\* PlatformUtils.get_platform_id().value
platform_id == Str("linux-x64")

\* A dictionary of runtime_dependencies.json: one with url and archiveType
\* and no dictionary among its values, or one whose values are dictionaries.
Leaf == [leaf |-> TRUE, url |-> "url", archive_type |-> "archiveType"]
Branch(keys, children) == [leaf |-> FALSE, keys |-> keys, children |-> children]

\* name -> leaf, name -> platform -> leaf, name -> version -> leaf,
\* name -> version -> platform -> leaf
PerPlatform(platforms) ==
    Branch(platforms, [k \in Range(platforms) |-> Leaf])
PerVersion(versions, node) ==
    Branch(versions, [k \in Range(versions) |-> node])

GradleVersions == <<Str("7.3.3"), Str("8.5")>>
JdkVersions == <<Str("17"), Str("21")>>
DefaultGradleVersion == "7.3.3"

\* The value of "dependencies": the intellicode entry is a leaf or has one
\* platform, and the file has or has not the entry "gradle" next to
\* "gradle_versions".
Dependencies(intellicode_node, with_gradle) ==
    LET names == <<vscode_java, gradle_versions, jdk_versions, intellicode>>
                 \o (IF with_gradle THEN <<gradle>> ELSE <<>>)
    IN  Branch(names,
               [k \in Range(names) |->
                  IF k = vscode_java THEN PerPlatform(<<platform_id>>)
                  ELSE IF k = gradle_versions THEN PerVersion(GradleVersions, Leaf)
                  ELSE IF k = jdk_versions
                  THEN PerVersion(JdkVersions, PerPlatform(<<platform_id>>))
                  ELSE IF k = intellicode THEN intellicode_node
                  ELSE PerPlatform(<<platform_agnostic>>)])

RuntimeDependenciesFiles ==
    {Dependencies(node, with_gradle) :
        node \in {Leaf, PerPlatform(<<platform_agnostic>>)},
        with_gradle \in BOOLEAN}

\* java_version and gradle_version of MultilspyConfig.
MultilspyConfigs ==
    {[java_version |-> java, gradle_version |-> gradle_version] :
        java \in {None, "21"}, gradle_version \in {None, "8.5"}}

\* DownloadStatus
PENDING == "pending"
IN_PROGRESS == "in_progress"
COMPLETED == "completed"
FAILED == "failed"

\* None where a path or a DependencyState is expected.
NoPath == <<>>
NoState == [none |-> TRUE]

NoProcessLaunchInfo == [none |-> TRUE]

NoStates == [k \in {} |-> NoState]
Idle == [pc |-> "idle"]
NotRun == [status |-> "none"]

SetupStart ==
    /\ download_plans = <<>>
    /\ dependency_states = NoStates
    /\ downloader = Idle
    /\ downloads = <<>>
    /\ returns = <<>>
    /\ setup = NotRun
    /\ lookups = NoStates
    /\ process_launch_info = NoProcessLaunchInfo

SetupInit ==
    /\ multilspy_config \in MultilspyConfigs
    /\ runtime_deps \in RuntimeDependenciesFiles
    /\ SetupStart

SetupIdle ==
    /\ multilspy_config = [java_version |-> None, gradle_version |-> None]
    /\ runtime_deps = Dependencies(Leaf, FALSE)
    /\ SetupStart

\* self.runtime_dependency_paths before setupRuntimeDependencies returned.
NoPaths == [none |-> TRUE]

NotBuilt == [status |-> "none"]
NotApplied == [status |-> "none"]

OverrideIdle ==
    /\ runtime_dependency_paths = NoPaths
    /\ params_given = NotBuilt
    /\ params_applied = NotApplied

\* The caller holds the RuntimeDependenciesConfig it constructed.
TheConfig == [kind |-> "config"]

TreeStart ==
    /\ held = TheConfig
    /\ trail = <<>>
    /\ is_leaf_said = "none"

TreeIdle ==
    /\ pydantic = "v1"
    /\ TreeStart

----------------------------------------------------------------------------
\* The state in which every part but the named one is at rest.
IdleBut(part) ==
    /\ IF part = "params" THEN TRUE ELSE ParamsIdle
    /\ IF part = "dispatch" THEN TRUE ELSE DispatchInit
    /\ IF part = "doc" THEN TRUE ELSE DocInit
    /\ IF part = "runner" THEN TRUE ELSE RunnerIdle
    /\ IF part = "from_dict" THEN TRUE ELSE FromDictIdle
    /\ IF part \in {"setup", "override", "tree"} THEN TRUE ELSE SetupIdle
    /\ IF part = "override" THEN TRUE ELSE OverrideIdle
    /\ IF part = "tree" THEN TRUE ELSE TreeIdle

JdtlsInit ==
    /\ pc = "created"
    /\ error = "none"
    /\ handlers = [request |-> {}, notification |-> {}]
    /\ proc = "none"
    /\ sent = <<>>
    /\ pending = "none"
    /\ callResult = NoValue
    /\ init_response = NoValue
    /\ intellicode_enable_result = NoValue
    /\ service_ready_event = FALSE
    /\ intellicode_enable_command_available = FALSE
    /\ initialize_searcher_command_available = FALSE
    /\ completions_available = FALSE
    /\ inbound = <<>>
    /\ srvPending = {}
    /\ pushed = 0
    /\ readerDone = FALSE
    /\ tasks = EmptyBag
    /\ unhandled = {}
    /\ arrived = <<>>
    /\ setOnSet = FALSE

Init == JdtlsInit /\ IdleBut("jdtls")

----------------------------------------------------------------------------
(* The start_server coroutine *)

Gates == [completions_available |-> completions_available,
          intellicode_enable_command_available |->
              intellicode_enable_command_available]

Raise(e) == pc' = "failed" /\ error' = e

\* server.send.<method>: write a request frame and suspend on its result.
\* A call attempted after the reader saw the stream end fails at once.
Call(method, frames) ==
    /\ sent' = sent \o frames \o <<method>>
    /\ pending' = method
    /\ callResult' = IF readerDone THEN [status |-> "closed"] ELSE NoValue
    /\ srvPending' = IF proc = "running" THEN srvPending \cup {method}
                     ELSE srvPending

\* The seven on_request / on_notification registrations.
RegisterHandlers ==
    /\ pc = "created"
    /\ handlers' = [request |-> handlers.request \cup JdtlsHandlers.request,
                    notification |->
                        handlers.notification \cup JdtlsHandlers.notification]
    /\ pc' = "registered"
    /\ UNCHANGED <<error, proc, sent, pending, callResult, init_response,
                   intellicode_enable_result, gateVars, inbound, srvPending,
                   pushed, readerDone, tasks, unhandled, arrived, setOnSet>>
    /\ UNCHANGED restVars

\* async with super().start_server(): await self.server.start()
StartProcess ==
    /\ pc = "registered"
    /\ proc' = "running"
    /\ pc' = "started"
    /\ UNCHANGED <<error, handlers, sent, pending, callResult, init_response,
                   intellicode_enable_result, gateVars, inbound, srvPending,
                   pushed, readerDone, tasks, unhandled, arrived, setOnSet>>
    /\ UNCHANGED restVars

\* _get_initialize_params, _apply_version_overrides, then the initialize
\* request.  How _get_initialize_params ends is an input of the handshake:
\* it returns the parameters, or raises (AttributeError on a method its
\* InitializeParamsConfig lacks, AssertionError on a runtime path that does
\* not exist); GetInitializeParams models the function itself.
SendInitialize ==
    /\ pc = "started"
    /\ \E outcome \in {"returned", "AttributeError", "AssertionError"} :
         IF outcome = "returned"
         THEN /\ Call("initialize", <<>>)
              /\ pc' = "await_init"
              /\ error' = error
         ELSE /\ Raise(outcome)
              /\ UNCHANGED <<sent, pending, callResult, srvPending>>
    /\ UNCHANGED <<handlers, proc, init_response, intellicode_enable_result,
                   gateVars, inbound, pushed, readerDone, tasks, unhandled,
                   arrived, setOnSet>>
    /\ UNCHANGED restVars

\* The initialize call resolves: the three capability assertions, then the
\* initialized and workspace/didChangeConfiguration notifications.
RecvInitialize ==
    /\ pc = "await_init"
    /\ callResult.status # "none"
    /\ pending' = "none"
    /\ callResult' = NoValue
    /\ IF callResult.status = "closed"
       THEN /\ Raise("ConnectionClosed")
            /\ UNCHANGED <<sent, init_response>>
       ELSE /\ init_response' = callResult
            /\ IF CapabilitiesAccepted(callResult.value)
               THEN /\ sent' = sent \o <<"initialized",
                                         "workspace/didChangeConfiguration">>
                    /\ pc' = "wait_intellicode"
                    /\ error' = error
               ELSE /\ Raise("AssertionError")
                    /\ sent' = sent
    /\ UNCHANGED <<handlers, proc, intellicode_enable_result, gateVars,
                   inbound, srvPending, pushed, readerDone, tasks, unhandled,
                   arrived, setOnSet>>
    /\ UNCHANGED restVars

\* As EnableIntellicode, without the wait on the gate.
EnableIntellicode_NoWait ==
    /\ pc = "wait_intellicode"
    /\ \E membersPathExists \in BOOLEAN :
         IF membersPathExists
         THEN /\ Call("workspace/executeCommand", <<>>)
              /\ pc' = "await_enable"
              /\ error' = error
         ELSE /\ Raise("AssertionError")
              /\ UNCHANGED <<sent, pending, callResult, srvPending>>
    /\ UNCHANGED <<handlers, proc, init_response, intellicode_enable_result,
                   gateVars, inbound, pushed, readerDone, tasks, unhandled,
                   arrived, setOnSet>>
    /\ UNCHANGED restVars

\* await self.intellicode_enable_command_available.wait(), the assertion
\* that the intellisense members path exists, then the enable command.
EnableIntellicode ==
    /\ pc = "wait_intellicode"
    /\ intellicode_enable_command_available
    /\ \E membersPathExists \in BOOLEAN :
         IF membersPathExists
         THEN /\ Call("workspace/executeCommand", <<>>)
              /\ pc' = "await_enable"
              /\ error' = error
         ELSE /\ Raise("AssertionError")
              /\ UNCHANGED <<sent, pending, callResult, srvPending>>
    /\ UNCHANGED <<handlers, proc, init_response, intellicode_enable_result,
                   gateVars, inbound, pushed, readerDone, tasks, unhandled,
                   arrived, setOnSet>>
    /\ UNCHANGED restVars

\* The enable command resolves: assert intellicode_enable_result.
RecvEnable ==
    /\ pc = "await_enable"
    /\ callResult.status # "none"
    /\ pending' = "none"
    /\ callResult' = NoValue
    /\ IF callResult.status = "closed"
       THEN /\ Raise("ConnectionClosed")
            /\ UNCHANGED intellicode_enable_result
       ELSE /\ intellicode_enable_result' = callResult
            /\ IF callResult.value
               THEN pc' = "wait_service_ready" /\ error' = error
               ELSE Raise("AssertionError")
    /\ UNCHANGED <<handlers, proc, sent, init_response, gateVars, inbound,
                   srvPending, pushed, readerDone, tasks, unhandled, arrived,
                   setOnSet>>
    /\ UNCHANGED restVars

\* As AwaitServiceReady, yielding without the wait.
AwaitServiceReady_NoWait ==
    /\ pc = "wait_service_ready"
    /\ pc' = "ready"
    /\ UNCHANGED <<error, handlers, proc, sent, pending, callResult,
                   init_response, intellicode_enable_result, gateVars, inbound,
                   srvPending, pushed, readerDone, tasks, unhandled, arrived,
                   setOnSet>>
    /\ UNCHANGED restVars

\* await self.service_ready_event.wait(), then yield self.
AwaitServiceReady ==
    /\ pc = "wait_service_ready"
    /\ service_ready_event
    /\ pc' = "ready"
    /\ UNCHANGED <<error, handlers, proc, sent, pending, callResult,
                   init_response, intellicode_enable_result, gateVars, inbound,
                   srvPending, pushed, readerDone, tasks, unhandled, arrived,
                   setOnSet>>
    /\ UNCHANGED restVars

\* The caller's body ends normally: the generator resumes after the yield
\* with await self.server.shutdown(), which sends the shutdown request.
BodyReturns ==
    /\ pc = "ready"
    /\ Call("shutdown", <<>>)
    /\ pc' = "await_shutdown"
    /\ UNCHANGED <<error, handlers, proc, init_response,
                   intellicode_enable_result, gateVars, inbound, pushed,
                   readerDone, tasks, unhandled, arrived, setOnSet>>
    /\ UNCHANGED restVars

\* The caller's body raises: the exception is thrown into the generator at
\* the yield, which has no try/finally around it, and leaves start_server.
BodyRaises ==
    /\ pc = "ready"
    /\ pc' = "exited"
    /\ error' = "BodyError"
    /\ UNCHANGED <<handlers, proc, sent, pending, callResult, init_response,
                   intellicode_enable_result, gateVars, inbound, srvPending,
                   pushed, readerDone, tasks, unhandled, arrived, setOnSet>>
    /\ UNCHANGED restVars

\* The shutdown call resolves; server.shutdown() then sends exit.  A failed
\* call leaves start_server with its exception.
RecvShutdown ==
    /\ pc = "await_shutdown"
    /\ callResult.status # "none"
    /\ pending' = "none"
    /\ callResult' = NoValue
    /\ IF callResult.status = "closed"
       THEN /\ pc' = "exited"
            /\ error' = "ConnectionClosed"
            /\ sent' = sent
       ELSE /\ sent' = Append(sent, "exit")
            /\ pc' = "stopping"
            /\ error' = error
    /\ UNCHANGED <<handlers, proc, init_response, intellicode_enable_result,
                   gateVars, inbound, srvPending, pushed, readerDone, tasks,
                   unhandled, arrived, setOnSet>>
    /\ UNCHANGED restVars

\* await self.server.stop()
StopProcess ==
    /\ pc = "stopping"
    /\ proc' = "stopped"
    /\ pc' = "exited"
    /\ srvPending' = {}
    /\ UNCHANGED <<error, handlers, sent, pending, callResult, init_response,
                   intellicode_enable_result, gateVars, inbound, pushed,
                   readerDone, tasks, unhandled, arrived, setOnSet>>
    /\ UNCHANGED restVars

----------------------------------------------------------------------------
(* The language server process *)

\* A registration list names the java.intellicode.enable command.
RegistersEnable(registrations) ==
    \E i \in 1..Len(registrations) :
        /\ registrations[i].method = "workspace/executeCommand"
        /\ "java.intellicode.enable" \in registrations[i].registerOptions.commands

\* A completion registration carries the options the client insists on.
ExpectedCompletion(registration) ==
    registration.method = "textDocument/completion" =>
        registration.registerOptions =
            [resolveProvider |-> TRUE, triggerCharacters |-> TriggerCharacters]

\* It names the command, and every completion registration listed before
\* it carries the expected options.
RegistersEnableCompatibly(registrations) ==
    \E i \in 1..Len(registrations) :
        /\ registrations[i].method = "workspace/executeCommand"
        /\ "java.intellicode.enable" \in registrations[i].registerOptions.commands
        /\ \A j \in 1..(i - 1) : ExpectedCompletion(registrations[j])

\* A capability set the client can work with.
ValidCapabilities(c) ==
    c.change = 2 /\ ~c.completionProvider /\ ~c.executeCommandProvider

\* What a frame contributes to the record of first arrivals.
Tokens(m) ==
    CASE m.kind = "response" /\ m.method = "initialize" ->
            IF ValidCapabilities(m.params)
            THEN <<"initialize:valid">> ELSE <<"initialize:invalid">>
      [] m.kind = "response" /\ m.method = "workspace/executeCommand" ->
            IF m.params THEN <<"enable:truthy">> ELSE <<"enable:falsy">>
      [] m.kind = "request" /\ m.method = "client/registerCapability" ->
            (IF RegistersEnable(m.params) THEN <<"registerCapability">> ELSE <<>>)
            \o (IF RegistersEnableCompatibly(m.params)
                THEN <<"registerCapability:compatible">> ELSE <<>>)
      [] m.kind = "notification" /\ m.method = "language/status" ->
            IF m.params = [type |-> "ServiceReady", message |-> "ServiceReady"]
            THEN <<"ServiceReady">> ELSE <<>>
      [] OTHER -> <<>>

RECURSIVE Record(_, _)
Record(log, toks) ==
    IF toks = <<>> THEN log
    ELSE Record(IF Head(toks) \in Range(log) THEN log ELSE Append(log, Head(toks)),
                Tail(toks))

\* The server sends a request or a notification of its own.
ServerPush ==
    /\ proc = "running"
    /\ pushed < MaxPush
    /\ \E m \in PushMsgs :
         inbound' = Append(inbound, m)
    /\ pushed' = pushed + 1
    /\ UNCHANGED <<clientVars, proc, gateVars, srvPending, readerDone, tasks,
                   unhandled, arrived, setOnSet>>
    /\ UNCHANGED restVars

\* The server answers a request of the client.
ServerReply ==
    /\ proc = "running"
    /\ \E method \in srvPending :
         /\ srvPending' = srvPending \ {method}
         /\ \E r \in Results(method) :
              inbound' = Append(inbound, Response(method, r))
    /\ UNCHANGED <<clientVars, proc, gateVars, pushed, readerDone, tasks,
                   unhandled, arrived, setOnSet>>
    /\ UNCHANGED restVars

\* The server process exits: its output stream ends after what it wrote.
ServerExit ==
    /\ proc = "running"
    /\ proc' = "exited"
    /\ inbound' = Append(inbound, EndOfStream)
    /\ srvPending' = {}
    /\ UNCHANGED <<clientVars, gateVars, pushed, readerDone, tasks, unhandled,
                   arrived, setOnSet>>
    /\ UNCHANGED restVars

----------------------------------------------------------------------------
(* The Dispatch Core *)

\* The namespace a frame's handler is looked up in has one for its method.
HasHandler(m) == m.method \in handlers[m.kind]

\* One turn of the reader loop: decode the next frame and route it.
Reader ==
    /\ proc # "none"
    /\ ~readerDone
    /\ inbound # <<>>
    /\ inbound' = Tail(inbound)
    /\ arrived' = Record(arrived, Tokens(Head(inbound)))
    /\ LET m == Head(inbound) IN
         CASE m.kind = "response" ->
                /\ callResult' =
                     IF pending = m.method /\ callResult.status = "none"
                     THEN [status |-> "ok", value |-> m.params]
                     ELSE callResult
                /\ UNCHANGED <<readerDone, tasks, unhandled>>
           [] m.kind = "eof" ->
                /\ readerDone' = TRUE
                /\ callResult' =
                     IF pending # "none" /\ callResult.status = "none"
                     THEN [status |-> "closed"]
                     ELSE callResult
                /\ UNCHANGED <<tasks, unhandled>>
           [] OTHER ->
                /\ IF HasHandler(m)
                   THEN tasks' = tasks (+) SetToBag({m}) /\ unhandled' = unhandled
                   ELSE tasks' = tasks /\ unhandled' = unhandled \cup {m.method}
                /\ UNCHANGED <<readerDone, callResult>>
    /\ UNCHANGED <<pc, error, handlers, proc, sent, pending, init_response,
                   intellicode_enable_result, gateVars, srvPending, pushed,
                   setOnSet>>
    /\ UNCHANGED restVars

NoGates == [completions_available |-> FALSE,
            intellicode_enable_command_available |-> FALSE]

\* A scheduled handler invocation runs.
RunHandler ==
    \E m \in BagToSet(tasks) :
      /\ tasks' = tasks (-) SetToBag({m})
      /\ CASE m.method = "client/registerCapability" ->
                LET after == register_capability_handler(m.params, Gates).g
                    sets == register_capability_handler(m.params, NoGates).g
                IN  /\ completions_available' = after.completions_available
                    /\ intellicode_enable_command_available' =
                           after.intellicode_enable_command_available
                    /\ setOnSet' =
                         (\/ setOnSet
                          \/ sets.completions_available /\ completions_available
                          \/ /\ sets.intellicode_enable_command_available
                             /\ intellicode_enable_command_available)
                    /\ UNCHANGED <<service_ready_event,
                                   initialize_searcher_command_available>>
           [] m.method = "language/status" ->
                /\ service_ready_event' =
                       lang_status_handler(m.params, service_ready_event)
                /\ setOnSet' =
                     (\/ setOnSet
                      \/ service_ready_event /\ lang_status_handler(m.params, FALSE))
                /\ UNCHANGED <<intellicode_enable_command_available,
                               initialize_searcher_command_available,
                               completions_available>>
           [] OTHER -> UNCHANGED <<gateVars, setOnSet>>
      /\ UNCHANGED <<clientVars, proc, inbound, srvPending, pushed, readerDone,
                     unhandled, arrived>>
      /\ UNCHANGED restVars

----------------------------------------------------------------------------
Next ==
    \/ RegisterHandlers
    \/ StartProcess
    \/ SendInitialize
    \/ RecvInitialize
    \/ EnableIntellicode
    \/ RecvEnable
    \/ AwaitServiceReady
    \/ BodyReturns
    \/ BodyRaises
    \/ RecvShutdown
    \/ StopProcess
    \/ ServerPush
    \/ ServerReply
    \/ ServerExit
    \/ Reader
    \/ RunHandler

Spec == Init /\ [][Next]_vars

\* The event loop runs every coroutine that can run: the start_server
\* coroutine up to the yield and after the body, the reader loop and the
\* scheduled handlers.  Nothing is assumed of the server or of the caller.
Client ==
    \/ RegisterHandlers
    \/ StartProcess
    \/ SendInitialize
    \/ RecvInitialize
    \/ EnableIntellicode
    \/ RecvEnable
    \/ AwaitServiceReady
    \/ RecvShutdown
    \/ StopProcess

FairSpec ==
    /\ Init
    /\ [][Next]_vars
    /\ WF_vars(Client)
    /\ WF_vars(Reader)
    /\ WF_vars(RunHandler)

----------------------------------------------------------------------------
(* Properties *)

\* start_server has yielded: the caller's body runs or has run.
Yielded == pc \in {"ready", "await_shutdown", "stopping", "exited"}

Count(log, x) == Cardinality({i \in DOMAIN log : log[i] = x})

\* C1: the caller's body runs only after the initialize response was
\* received and passed the capability checks, the initialized notification
\* was sent, both required gates are set and the enable command returned a
\* truthy result.
C1_ReadyOnlyAfterHandshake ==
    pc = "ready" =>
        /\ init_response.status = "ok"
        /\ ValidCapabilities(init_response.value)
        /\ "initialized" \in Range(sent)
        /\ intellicode_enable_command_available
        /\ service_ready_event
        /\ intellicode_enable_result.status = "ok"
        /\ intellicode_enable_result.value = TRUE

C1_Witness ==
    /\ pc = "ready"
    /\ service_ready_event
    /\ intellicode_enable_command_available

\* C2: once an initialize response with an invalid capability set has
\* arrived, start_server can only fail, with the assertion error of the
\* capability checks; initialized is never sent and the session never
\* yields.
C2_InvalidCapabilitiesAreFatal ==
    "initialize:invalid" \in Range(arrived) =>
        /\ "initialized" \notin Range(sent)
        /\ ~Yielded
        /\ pc \in {"await_init", "failed"}
        /\ init_response.status = "ok" =>
               pc = "failed" /\ error = "AssertionError"
        /\ pc = "failed" => error = "AssertionError"

C2_Witness ==
    /\ pc = "failed"
    /\ error = "AssertionError"
    /\ init_response.status = "ok"
    /\ ~ValidCapabilities(init_response.value)

\* The server has written a frame that contributes tok: it arrived, or it
\* is still in the stream.
Written(tok) ==
    \/ tok \in Range(arrived)
    \/ \E i \in DOMAIN inbound : tok \in Range(Tokens(inbound[i]))

\* C3: once the server has answered initialize with a valid capability
\* set, sent a client/registerCapability request registering
\* java.intellicode.enable, answered the enable command with a truthy result
\* and sent the ServiceReady status, start_server reaches the yield.
C3_CooperatingServerReachesReady ==
    (/\ Written("initialize:valid")
     /\ Written("registerCapability")
     /\ Written("enable:truthy")
     /\ Written("ServiceReady")) ~> Yielded

C3_Witness ==
    /\ pc = "ready"
    /\ {"initialize:valid", "registerCapability", "enable:truthy",
        "ServiceReady"} \subseteq Range(arrived)

\* The order in which the valid initialize response, the registration of
\* the enable command and the ServiceReady status first arrived.
HandshakeArrivals ==
    SelectSeq(arrived, LAMBDA t : t \in {"initialize:valid",
                                         "registerCapability:compatible",
                                         "ServiceReady"})

ArrivalOrders ==
    { <<"initialize:valid", "registerCapability:compatible", "ServiceReady">>,
      <<"initialize:valid", "ServiceReady", "registerCapability:compatible">>,
      <<"registerCapability:compatible", "initialize:valid", "ServiceReady">>,
      <<"registerCapability:compatible", "ServiceReady", "initialize:valid">>,
      <<"ServiceReady", "initialize:valid", "registerCapability:compatible">>,
      <<"ServiceReady", "registerCapability:compatible", "initialize:valid">> }

\* C4: whichever of the six orders the initialize response, the
\* registration request and the ServiceReady status arrived in, also with a
\* gate set before start_server waits on it, the handshake reaches the
\* yield once the enable command is answered; and a gate whose signal has
\* arrived and been handled is set while start_server is suspended on it.
C4_EveryArrivalOrderReachesReady ==
    /\ (\E o \in ArrivalOrders :
           HandshakeArrivals = o /\ Written("enable:truthy")) ~> Yielded
    /\ [](/\ pc = "wait_intellicode"
          /\ "registerCapability:compatible" \in Range(arrived)
          /\ tasks = EmptyBag
          => intellicode_enable_command_available)
    /\ [](/\ pc = "wait_service_ready"
          /\ "ServiceReady" \in Range(arrived)
          /\ tasks = EmptyBag
          => service_ready_event)

\* Both gates were signalled before the initialize response arrived.
C4_Witness ==
    /\ pc = "ready"
    /\ HandshakeArrivals =
         <<"ServiceReady", "registerCapability:compatible", "initialize:valid">>

\* start_server is suspended on a readiness gate.
GateWaits == {"wait_intellicode", "wait_service_ready"}

\* C5: a gate wait that is in progress when the stream has ended does not
\* stay suspended.

C5_GateWaitEndsWhenStreamCloses ==
    (readerDone /\ pc \in GateWaits) ~> (pc \notin GateWaits)

\* C6: when control has left start_server after the yield and the server
\* process has not exited by itself, a shutdown request was sent and
\* answered and the process was then stopped.
C6_ShutdownOnEveryExit ==
    (pc = "exited" /\ proc # "exited") =>
        /\ "shutdown" \in Range(sent)
        /\ "exit" \in Range(sent)
        /\ proc = "stopped"

\* C7: the three gates are unset when the session is created, and a gate
\* that is set stays set in every later state.
C7_GatesAreOneShot ==
    /\ ~service_ready_event
    /\ ~intellicode_enable_command_available
    /\ ~completions_available
    /\ [][/\ service_ready_event => service_ready_event'
          /\ intellicode_enable_command_available =>
                 intellicode_enable_command_available'
          /\ completions_available => completions_available']_vars

\* A triggering message was handled with its gate already set.
C7_Witness ==
    /\ setOnSet
    /\ service_ready_event \/ intellicode_enable_command_available
         \/ completions_available

JavaRequestMethods ==
    {"client/registerCapability", "workspace/executeClientCommand"}

JavaNotificationMethods ==
    {"language/status", "window/logMessage", "$/progress",
     "textDocument/publishDiagnostics", "language/actionableNotification"}

\* C8: once the process is started or the initialize request is sent, the
\* seven handlers are registered, and no frame for one of their methods has
\* found its handler missing.
C8_HandlersRegisteredBeforeStart ==
    /\ (proc # "none" \/ "initialize" \in Range(sent)) =>
          /\ JavaRequestMethods \subseteq handlers.request
          /\ JavaNotificationMethods \subseteq handlers.notification
    /\ unhandled \cap (JavaRequestMethods \cup JavaNotificationMethods) = {}

\* A frame for a registered method arrived before the initialize response
\* and found its handler; one for another method did not.
C8_Witness ==
    /\ pc = "await_init"
    /\ callResult.status = "none"
    /\ tasks # EmptyBag
    /\ unhandled = {"telemetry/event"}

\* C9: the enable command is sent at most once, and only after a
\* client/registerCapability request registering java.intellicode.enable
\* has arrived.
C9_EnableSentOnceAfterRegistration ==
    /\ Count(sent, "workspace/executeCommand") <= 1
    /\ "workspace/executeCommand" \in Range(sent) =>
          /\ "registerCapability" \in Range(arrived)
          /\ intellicode_enable_command_available

C9_Witness ==
    /\ Count(sent, "workspace/executeCommand") = 1
    /\ pc = "ready"

\* C10: a run of the client/registerCapability handler changes nothing
\* but gates; it changes completions_available only if the request carries
\* a textDocument/completion registration, and
\* intellicode_enable_command_available only if it carries a
\* workspace/executeCommand registration listing java.intellicode.enable.
C10_RegisterCapabilityFrame ==
    [][\A r \in RegistrationLists :
         LET m == Request("client/registerCapability", r) IN
           (m \in BagToSet(tasks) /\ tasks' = tasks (-) SetToBag({m})) =>
              /\ UNCHANGED <<clientVars, proc, inbound, srvPending, pushed,
                             readerDone, unhandled, service_ready_event,
                             initialize_searcher_command_available>>
              /\ completions_available' # completions_available =>
                    \E i \in 1..Len(r) : r[i].method = "textDocument/completion"
              /\ intellicode_enable_command_available'
                     # intellicode_enable_command_available =>
                    RegistersEnable(r)
      ]_vars

\* A completion registration and one of another command were handled.
C10_Witness ==
    /\ completions_available
    /\ ~intellicode_enable_command_available
    /\ ~service_ready_event
    /\ pushed = MaxPush
    /\ tasks = EmptyBag
    /\ inbound = <<>>

----------------------------------------------------------------------------
(* ParamsSpec: _get_initialize_params *)

\* The absolute form of the repository root the parameters are built for.
RepositoryRoot ==
    IF isabs(repository_absolute_path) THEN repository_absolute_path
    ELSE abspath(repository_absolute_path, cwd)

\* _get_initialize_params: load the template into an InitializeParamsConfig,
\* assign process_id, root_path and root_uri, then call
\* set_initialization_option for the workspace folders.  The class does not
\* define that method, so the call raises AttributeError; were it defined,
\* workspace_folders, the bundles, the runtimes (asserted to exist) and the
\* gradle homes would follow and to_lsp_dict() would be returned.
GetInitializeParams ==
    /\ initialize_params = NotCalled
    /\ LET topLevel ==
             [init_params_config EXCEPT
                 !.processId = Value(pid),
                 !.rootPath = Value(RepositoryRoot),
                 !.rootUri = Value(as_uri(RepositoryRoot))]
           folders ==
             [topLevel EXCEPT
                 !.workspaceFolders =
                     Value(<<[uri |-> as_uri(RepositoryRoot),
                              name |-> basename(RepositoryRoot)]>>)]
       IN  IF "set_initialization_option" \in InitializeParamsConfigMethods
           THEN /\ init_params_config' = folders
                /\ \E runtimePathExists \in BOOLEAN :
                     initialize_params' =
                         IF runtimePathExists
                         THEN [status |-> "returned", value |-> folders]
                         ELSE [status |-> "raised", error |-> "AssertionError"]
           ELSE /\ init_params_config' = topLevel
                /\ initialize_params' =
                       [status |-> "raised", error |-> "AttributeError"]
    /\ UNCHANGED <<repository_absolute_path, cwd, pid>>
    /\ UNCHANGED notParams

ParamsSpecInit == ParamsInit /\ JdtlsInit /\ IdleBut("params")

ParamsNext == GetInitializeParams

ParamsSpec == ParamsSpecInit /\ [][ParamsNext]_vars

\* C11: when _get_initialize_params has run, it has returned the parameters
\* of the initialize request, and in them processId is the client's process
\* id, rootPath the absolute repository root, rootUri its URI, and
\* workspaceFolders the root's URI and name: no placeholder is left.
C11_InitializeParamsSubstituted ==
    initialize_params # NotCalled =>
        /\ initialize_params.status = "returned"
        /\ \A f \in DOMAIN init_params_config :
               DOMAIN init_params_config[f] = {"value"}
        /\ init_params_config.processId = Value(pid)
        /\ init_params_config.rootPath = Value(RepositoryRoot)
        /\ RepositoryRoot.absolute
        /\ init_params_config.rootUri = Value(as_uri(RepositoryRoot))
        /\ init_params_config.workspaceFolders =
               Value(<<[uri |-> as_uri(RepositoryRoot),
                        name |-> basename(RepositoryRoot)]>>)

----------------------------------------------------------------------------
(* DispatchSpec: the Dispatch Core serving concurrent callers *)

\* How a call stands or ended.
Pending == [status |-> "pending"]
TimeoutError == [status |-> "TimeoutError"]
ConnectionClosed == [status |-> "ConnectionClosed"]

\* What a response resolves its call with: the result, or RpcError.
Settled(payload) ==
    IF "result" \in DOMAIN payload
    THEN [status |-> "ok", result |-> payload.result]
    ELSE [status |-> "RpcError", code |-> payload.error]

ResponseFrame(id, payload) == [kind |-> "response", id |-> id, payload |-> payload]
EndFrame == [kind |-> "eof"]

Issued == 1..(idGenerator - 1)

\* The PendingCall table: register, look up, remove.
Register(table, id, deadline) == table \cup {[id |-> id, deadline |-> deadline]}
Lookup(table, id) == {c \in table : c.id = id}
Discard(table, id) == table \ Lookup(table, id)

\* As Resolve, resolving the oldest PendingCall whatever id the response
\* carries.
Resolve_Oldest(table, outs, frame) ==
    IF table = {}
    THEN [table |-> table, outcomes |-> outs, late |-> {frame.id}]
    ELSE LET oldest == CHOOSE id \in {c.id : c \in table} :
                           \A c \in table : id <= c.id
         IN  [table |-> Discard(table, oldest),
              outcomes |-> [outs EXCEPT ![oldest] = Settled(frame.payload)],
              late |-> {}]

\* The reader loop on a Response: resolve or reject the PendingCall of its
\* id; an id with no PendingCall is logged and dropped.
Resolve(table, outs, frame) ==
    IF Lookup(table, frame.id) = {}
    THEN [table |-> table, outcomes |-> outs, late |-> {frame.id}]
    ELSE [table |-> Discard(table, frame.id),
          outcomes |-> [outs EXCEPT ![frame.id] = Settled(frame.payload)],
          late |-> {}]

\* As FailAll, failing only the PendingCall registered first.
FailAll_First(table, outs) ==
    [id \in DOMAIN outs |->
        IF Lookup(table, id) # {} /\ \A c \in table : id <= c.id
        THEN ConnectionClosed ELSE outs[id]]

\* The reader loop when the stream ends: every outstanding PendingCall
\* fails with ConnectionClosed.
FailAll(table, outs) ==
    [id \in DOMAIN outs |->
        IF Lookup(table, id) # {} THEN ConnectionClosed ELSE outs[id]]

\* As Expire, leaving the PendingCall in the table.
Expire_KeepPending(table, outs, id) ==
    [table |-> table, outcomes |-> [outs EXCEPT ![id] = TimeoutError]]

\* The timeout of a call elapses: its PendingCall is discarded and the
\* caller fails with TimeoutError.
Expire(table, outs, id) ==
    [table |-> Discard(table, id),
     outcomes |-> [outs EXCEPT ![id] = TimeoutError]]

\* call(method, params, timeout?): a fresh id, a PendingCall, the Request
\* written; the caller is suspended.  On a crashed Session the call fails
\* at once.
call ==
    /\ idGenerator <= MaxCalls
    /\ idGenerator' = idGenerator + 1
    /\ IF session = "Crashed"
       THEN /\ outcomes' = Append(outcomes, ConnectionClosed)
            /\ UNCHANGED <<pendingCalls, requested>>
       ELSE /\ \E deadline \in BOOLEAN :
                 pendingCalls' = Register(pendingCalls, idGenerator, deadline)
            /\ outcomes' = Append(outcomes, Pending)
            /\ requested' = IF process = "running"
                            THEN requested \cup {idGenerator} ELSE requested
    /\ UNCHANGED <<stream, process, session, delivered, carried, late,
                   failedOnClose>>
    /\ UNCHANGED notDispatch

\* The deadline of a pending call elapses.
Timeout ==
    /\ \E c \in pendingCalls :
         /\ c.deadline
         /\ LET after == Expire(pendingCalls, outcomes, c.id) IN
              /\ pendingCalls' = after.table
              /\ outcomes' = after.outcomes
    /\ UNCHANGED <<idGenerator, requested, stream, process, session, delivered,
                   carried, late, failedOnClose>>
    /\ UNCHANGED notDispatch

\* The server answers one of the requests it holds, in any order.
Respond ==
    /\ process = "running"
    /\ \E id \in requested, payload \in Payloads :
         /\ stream' = Append(stream, ResponseFrame(id, payload))
         /\ requested' = requested \ {id}
         /\ carried' = carried \cup {[id |-> id, payload |-> payload]}
    /\ UNCHANGED <<idGenerator, pendingCalls, outcomes, process, session,
                   delivered, late, failedOnClose>>
    /\ UNCHANGED notDispatch

\* The process exits: its output ends after what it wrote.
ProcessExit ==
    /\ process = "running"
    /\ process' = "exited"
    /\ stream' = Append(stream, EndFrame)
    /\ requested' = {}
    /\ UNCHANGED <<idGenerator, pendingCalls, outcomes, session, delivered,
                   carried, late, failedOnClose>>
    /\ UNCHANGED notDispatch

\* One turn of the reader loop, which runs until the stream ends.
ReaderLoop ==
    /\ session = "Ready"
    /\ stream # <<>>
    /\ stream' = Tail(stream)
    /\ LET frame == Head(stream) IN
         IF frame.kind = "response"
         THEN LET after == Resolve(pendingCalls, outcomes, frame) IN
                /\ pendingCalls' = after.table
                /\ outcomes' = after.outcomes
                /\ late' = late \cup after.late
                /\ delivered' = Append(delivered, frame.id)
                /\ UNCHANGED <<session, failedOnClose>>
         ELSE /\ outcomes' = FailAll(pendingCalls, outcomes)
              /\ failedOnClose' = {c.id : c \in pendingCalls}
              /\ pendingCalls' = {}
              /\ session' = "Crashed"
              /\ UNCHANGED <<late, delivered>>
    /\ UNCHANGED <<idGenerator, requested, process, carried>>
    /\ UNCHANGED notDispatch

DispatchSpecInit == DispatchInit /\ JdtlsInit /\ IdleBut("dispatch")

DispatchNext ==
    \/ call
    \/ Timeout
    \/ Respond
    \/ ProcessExit
    \/ ReaderLoop

DispatchSpec == DispatchSpecInit /\ [][DispatchNext]_vars

\* The payloads of the responses written for an id.
CarriedFor(id) == {c.payload : c \in {d \in carried : d.id = id}}

\* C12: ids are distinct (one PendingCall per id at most), and a call whose
\* response has been decoded, in whatever order the responses came, is
\* resolved with what the response of its own id carried and is no longer
\* pending; only its own timeout, elapsed before, gives it another end.
C12_ResponsesCorrelateById ==
    \A id \in Issued :
        /\ Cardinality(Lookup(pendingCalls, id)) <= 1
        /\ id \in Range(delivered) =>
              /\ Lookup(pendingCalls, id) = {}
              /\ outcomes[id] # Pending
              /\ outcomes[id] # TimeoutError =>
                    /\ Cardinality(CarriedFor(id)) = 1
                    /\ \A payload \in CarriedFor(id) :
                          outcomes[id] = Settled(payload)

\* Three calls in flight together, answered in the order 3, 1, 2 with
\* differing payloads, each resolved.
C12_Witness ==
    /\ delivered = <<3, 1, 2>>
    /\ outcomes[1] = Settled([result |-> "a"])
    /\ outcomes[2] = Settled([result |-> "b"])
    /\ outcomes[3] = Settled([error |-> -32603])

\* C13: once the process has exited and the reader has reached the end of
\* its output, the Session is Crashed; in a crashed Session no PendingCall
\* is left, no call is still pending, and every call that was outstanding
\* when the stream ended has failed with ConnectionClosed.
C13_ExitFailsEveryPendingCall ==
    /\ (process = "exited" /\ stream = <<>>) => session = "Crashed"
    /\ session = "Crashed" =>
          /\ pendingCalls = {}
          /\ \A id \in Issued : outcomes[id] # Pending
          /\ \A id \in failedOnClose : outcomes[id] = ConnectionClosed

\* Two calls were outstanding when the stream ended.
C13_Witness ==
    /\ session = "Crashed"
    /\ Cardinality(failedOnClose) >= 2
    /\ \A id \in failedOnClose : outcomes[id] = ConnectionClosed

\* C14: a timed-out call has no PendingCall and stays timed out; a response
\* decoded for an id without a PendingCall is dropped, leaving the table and
\* the outcome of every call as they were.
C14_LateResponseIsDropped ==
    /\ \A id \in Issued :
          outcomes[id] = TimeoutError => Lookup(pendingCalls, id) = {}
    /\ [][/\ \A id \in Issued :
               outcomes[id] = TimeoutError => outcomes'[id] = TimeoutError
          /\ (/\ stream # <<>>
              /\ stream' = Tail(stream)
              /\ Head(stream).kind = "response"
              /\ Lookup(pendingCalls, Head(stream).id) = {})
             => /\ outcomes' = outcomes
                /\ pendingCalls' = pendingCalls
                /\ Head(stream).id \in late']_vars

\* The response of the timed-out call 1 was dropped while call 2 was in
\* flight; call 2 was then resolved by its own response.
C14_Witness ==
    /\ delivered = <<1, 2>>
    /\ late = {1}
    /\ outcomes[1] = TimeoutError
    /\ outcomes[2] = Settled([result |-> "b"])

----------------------------------------------------------------------------
(* DocSpec: the document state of the Operation Facade *)

DidOpen(uri, version, content) ==
    [kind |-> "didOpen", uri |-> uri, version |-> version, content |-> content]
DidChange(uri, version, content) ==
    [kind |-> "didChange", uri |-> uri, version |-> version, content |-> content]
DidClose(uri) ==
    [kind |-> "didClose", uri |-> uri, version |-> 0, content |-> ""]
OperationRequest(uri) ==
    [kind |-> "request", uri |-> uri, version |-> 0, content |-> ""]

\* The version a DocumentState is created with.
FirstVersion == 1

\* As NextVersion, sending the version unchanged.
NextVersion_Same(version) == version

\* The version after a mutation.
NextVersion(version) == version + 1

Opened(content) ==
    [open |-> TRUE, version |-> FirstVersion, content |-> content]

Mutated(doc, content) ==
    [open |-> TRUE, version |-> NextVersion(doc.version), content |-> content]

\* The notifications that bring the server's copy of a document up to the
\* content given: an open notification on first use, a change notification
\* if the content differs from the cached copy, nothing otherwise.
Synchronise(uri, content) ==
    IF ~documents[uri].open
    THEN [doc |-> Opened(content),
          frames |-> <<DidOpen(uri, FirstVersion, content)>>]
    ELSE IF documents[uri].content # content
    THEN [doc |-> Mutated(documents[uri], content),
          frames |-> <<DidChange(uri, NextVersion(documents[uri].version),
                                 content)>>]
    ELSE [doc |-> documents[uri], frames |-> <<>>]

\* The file is opened explicitly.
OpenDocument ==
    /\ Len(written) < MaxWritten
    /\ \E uri \in Uris :
         /\ ~documents[uri].open
         /\ LET sync == Synchronise(uri, disk[uri]) IN
              /\ documents' = [documents EXCEPT ![uri] = sync.doc]
              /\ written' = written \o sync.frames
    /\ UNCHANGED disk
    /\ UNCHANGED notDoc

\* An edit call on an open document: the version is incremented, the
\* content replaced, and one change notification sent.
EditDocument ==
    /\ Len(written) < MaxWritten
    /\ \E uri \in Uris, content \in Contents :
         /\ documents[uri].open
         /\ documents' = [documents EXCEPT ![uri] = Mutated(@, content)]
         /\ written' = Append(written,
                DidChange(uri, NextVersion(documents[uri].version), content))
    /\ UNCHANGED disk
    /\ UNCHANGED notDoc

\* Closing removes the DocumentState and sends a close notification.
CloseDocument ==
    /\ Len(written) < MaxWritten
    /\ \E uri \in Uris :
         /\ documents[uri].open
         /\ documents' = [documents EXCEPT ![uri] = Closed]
         /\ written' = Append(written, DidClose(uri))
    /\ UNCHANGED disk
    /\ UNCHANGED notDoc

\* An operation on a document: the document is brought up to date first,
\* then the request is written.
Operation ==
    /\ \E uri \in Uris :
         LET sync == Synchronise(uri, disk[uri]) IN
           /\ Len(written) + Len(sync.frames) < MaxWritten
           /\ documents' = [documents EXCEPT ![uri] = sync.doc]
           /\ written' = written \o sync.frames \o <<OperationRequest(uri)>>
    /\ UNCHANGED disk
    /\ UNCHANGED notDoc

\* The file changes on disk.
WriteFile ==
    /\ \E uri \in Uris, content \in Contents :
         /\ disk[uri] # content
         /\ disk' = [disk EXCEPT ![uri] = content]
    /\ UNCHANGED <<documents, written>>
    /\ UNCHANGED notDoc

DocSpecInit == DocInit /\ JdtlsInit /\ IdleBut("doc")

DocNext ==
    \/ OpenDocument
    \/ EditDocument
    \/ CloseDocument
    \/ Operation
    \/ WriteFile

DocSpec == DocSpecInit /\ [][DocNext]_vars

\* The notifications written for a document before the frame at i.
NotificationsBefore(uri, i) ==
    {j \in 1..(i - 1) : written[j].uri = uri /\ written[j].kind # "request"}

\* The last of them.
LastNotification(uri, i) ==
    written[CHOOSE j \in NotificationsBefore(uri, i) :
                \A k \in NotificationsBefore(uri, i) : k <= j]

\* The document is open for the server just before the frame at i.
OpenBefore(uri, i) ==
    /\ NotificationsBefore(uri, i) # {}
    /\ LastNotification(uri, i).kind # "didClose"

\* C15: an open notification carries version 1; a change notification
\* carries the version after that of the notification written before it for
\* the same open document; the request of an operation is written after
\* the open notification and the changes of its document; and the version
\* and content last sent are the local ones.
C15_DocumentVersionsInOrder ==
    /\ \A i \in DOMAIN written :
          LET f == written[i] IN
            /\ f.kind = "didOpen" => f.version = 1 /\ ~OpenBefore(f.uri, i)
            /\ f.kind = "didChange" =>
                  /\ OpenBefore(f.uri, i)
                  /\ f.version = LastNotification(f.uri, i).version + 1
            /\ f.kind = "request" => OpenBefore(f.uri, i)
    /\ \A uri \in Uris :
          LET end == Len(written) + 1 IN
            IF documents[uri].open
            THEN /\ OpenBefore(uri, end)
                 /\ LastNotification(uri, end).version = documents[uri].version
                 /\ LastNotification(uri, end).content = documents[uri].content
            ELSE ~OpenBefore(uri, end)

\* A document opened, mutated three times, then operated on.
C15_Witness ==
    written = <<DidOpen("Foo.txt", 1, "abc"),
                DidChange("Foo.txt", 2, "abd"),
                DidChange("Foo.txt", 3, "abc"),
                DidChange("Foo.txt", 4, "abd"),
                OperationRequest("Foo.txt")>>

----------------------------------------------------------------------------
(* RunnerSpec: MCPRunner *)

Raised(message) == [raised |-> TRUE, message |-> message]

\* lsp_section.get(lang.value, {}): a missing table has no roots and no
\* versions.
SectionOf(lsp, language) ==
    IF language \in DOMAIN lsp.sections THEN lsp.sections[language]
    ELSE Section(List(<<>>), None, None)

LanguageServerConfig(language, section) ==
    [language |-> language, roots |-> section.roots.items,
     java_version |-> section.java_version,
     gradle_version |-> section.gradle_version]

\* validate without the test of os.path.isdir.
validate_AnyRoot(server_config) ==
    IF server_config.roots = <<>> THEN "No roots specified" ELSE None

\* LanguageServerConfig.validate: the error message, or None.
validate(server_config) ==
    IF server_config.roots = <<>> THEN "No roots specified"
    ELSE IF \E i \in DOMAIN server_config.roots : ~isdir(server_config.roots[i])
    THEN "Root path does not exist"
    ELSE None

\* What the second loop of from_dict raises for a language, or None.
SectionError(lsp, language) ==
    IF ~SectionOf(lsp, language).roots.isList THEN "'roots' must be a list"
    ELSE validate(LanguageServerConfig(language, SectionOf(lsp, language)))

\* LSPConfig.from_dict
from_dict(lsp) ==
    LET names == lsp.language_servers
        languages == [i \in DOMAIN names |-> lower(names[i])]
        bad == {i \in DOMAIN names : SectionError(lsp, languages[i]) # None}
    IN  IF \E i \in DOMAIN names : languages[i] \notin SupportedLanguages
        THEN Raised("Unsupported language")
        ELSE IF bad # {}
        THEN Raised(SectionError(lsp,
                 languages[CHOOSE i \in bad : \A j \in bad : i <= j]))
        ELSE [raised |-> FALSE,
              config |->
                [loaded |-> TRUE,
                 language_servers |-> languages,
                 servers |->
                    [l \in Range(languages) |->
                        LanguageServerConfig(l, SectionOf(lsp, l))]]]

\* open(lsp_toml_path) ... LSPConfig.from_dict(toml_dict): the
\* configuration, or that an exception was raised.
LoadConfig(file) ==
    IF ~file.parses THEN Raised("TOMLDecodeError") ELSE from_dict(file.lsp)

\* _try_load_config: self.config afterwards.
try_load_config(file) ==
    IF ~file.exists THEN NoConfig
    ELSE IF LoadConfig(file).raised THEN NoConfig
    ELSE LoadConfig(file).config

\* The dictionary _start_language_servers_internal gives
\* MultilspyConfig.from_dict for the server of a language.
config_dict(server_config) == [code_language |-> server_config.language]

Started(servers) == {s.language : s \in servers}

\* _start_language_servers_internal, from the i-th configured language on:
\* failing are the languages whose server does not start.
RECURSIVE start_language_servers_internal(_, _, _, _, _)
start_language_servers_internal(i, cfg, servers, log, failing) ==
    IF i > Len(cfg.language_servers)
    THEN [language_servers |-> servers, attempts |-> log, raised |-> FALSE]
    ELSE LET language == cfg.language_servers[i]
             server_config == cfg.servers[language]
         IN  IF \/ \E j \in 1..(i - 1) : cfg.language_servers[j] = language
                \/ language \in Started(servers)
                \/ Len(server_config.roots) = 0
             THEN start_language_servers_internal(i + 1, cfg, servers, log,
                                                  failing)
             ELSE LET attempt ==
                        [language |-> language,
                         multilspy_config |-> config_dict(server_config),
                         project_root |-> server_config.roots[1],
                         started |-> language \notin failing]
                      log2 == Append(log, attempt)
                  IN  IF language \in failing
                      THEN [language_servers |-> servers, attempts |-> log2,
                            raised |-> TRUE]
                      ELSE start_language_servers_internal(
                               i + 1, cfg,
                               servers \cup {[language |-> language,
                                              instance |-> Len(log2)]},
                               log2, failing)

\* As ensure_configured, reporting the runner configured without looking
\* for the file.
ensure_configured_Unchecked(cfg, servers, log, file, failing) ==
    [config |-> cfg, language_servers |-> servers, attempts |-> log,
     result |-> TRUE]

\* As ensure_configured, loading the file without starting the servers.
ensure_configured_NoStart(cfg, servers, log, file, failing) ==
    IF cfg.loaded
    THEN [config |-> cfg, language_servers |-> servers, attempts |-> log,
          result |-> TRUE]
    ELSE IF ~file.exists \/ LoadConfig(file).raised
    THEN [config |-> cfg, language_servers |-> servers, attempts |-> log,
          result |-> FALSE]
    ELSE [config |-> LoadConfig(file).config, language_servers |-> servers,
          attempts |-> log, result |-> TRUE]

\* As ensure_configured, loading the file and starting the servers anew on
\* every call.
ensure_configured_Restart(cfg, servers, log, file, failing) ==
    IF ~file.exists \/ LoadConfig(file).raised
    THEN [config |-> cfg, language_servers |-> servers, attempts |-> log,
          result |-> cfg.loaded]
    ELSE LET loaded == LoadConfig(file).config
             start == start_language_servers_internal(1, loaded, {}, log,
                                                      failing)
         IN  [config |-> loaded,
              language_servers |-> start.language_servers,
              attempts |-> start.attempts,
              result |-> ~start.raised]

\* _ensure_configured: self.config, self.language_servers and the servers
\* created afterwards, and the value returned.  The configuration is
\* assigned before the servers are started, and an exception of either
\* step is caught and answered with False.
ensure_configured(cfg, servers, log, file, failing) ==
    IF cfg.loaded
    THEN [config |-> cfg, language_servers |-> servers, attempts |-> log,
          result |-> TRUE]
    ELSE IF ~file.exists \/ LoadConfig(file).raised
    THEN [config |-> cfg, language_servers |-> servers, attempts |-> log,
          result |-> FALSE]
    ELSE LET loaded == LoadConfig(file).config
             start == start_language_servers_internal(1, loaded, servers, log,
                                                      failing)
         IN  [config |-> loaded,
              language_servers |-> start.language_servers,
              attempts |-> start.attempts,
              result |-> ~start.raised]

\* The tools _register_tools registers.
Tools ==
    {"lsp_get_diagnostics", "lsp_get_definition", "lsp_get_references",
     "lsp_get_hover", "lsp_get_completions", "lsp_get_document_symbols",
     "lsp_get_workspace_symbols"}

\* The language argument of a tool call.
ToolLanguages == {"java", "python", "rust", "Python"}

Result(tool, language, status, message, instance) ==
    [call |-> calls + 1, tool |-> tool, language |-> language,
     status |-> status, message |-> message, instance |-> instance]

\* get_language_server: the instance serving a language.
get_language_server(servers, language) ==
    (CHOOSE s \in servers : s.language = language).instance

\* The body of a tool after _ensure_configured: the JSON it returns, or the
\* MCPToolError it raises.
ToolBody(tool, language, configured, servers, operationFails) ==
    IF ~configured
    THEN Result(tool, language, "error", "get_configuration_error_message", 0)
    ELSE IF language \notin SupportedLanguages
    THEN Result(tool, language, "MCPToolError", "Invalid language", 0)
    ELSE IF language \notin Started(servers)
    THEN Result(tool, language, "MCPToolError", "not available", 0)
    ELSE IF operationFails
    THEN Result(tool, language, "MCPToolError", "Failed",
                get_language_server(servers, language))
    ELSE Result(tool, language, "success", None,
                get_language_server(servers, language))

\* MCPRunner.__init__: load lsp.toml if there is one and start its servers;
\* an exception of a start leaves the constructor.
Construct ==
    /\ runner = "none"
    /\ LET cfg == try_load_config(lsp_toml) IN
         /\ config' = cfg
         /\ loadedBy' = IF cfg.loaded THEN "__init__" ELSE loadedBy
         /\ IF cfg.loaded
            THEN \E failing \in SUBSET ConfiguredLanguages :
                   LET start == start_language_servers_internal(
                                    1, cfg, language_servers, attempts, failing)
                   IN  /\ language_servers' = start.language_servers
                       /\ attempts' = start.attempts
                       /\ runner' = IF start.raised THEN "raised"
                                    ELSE "constructed"
            ELSE /\ runner' = "constructed"
                 /\ UNCHANGED <<language_servers, attempts>>
    /\ UNCHANGED <<lsp_toml, ensured, lastResult, calls>>
    /\ UNCHANGED notRunner

\* A tool is called.
ToolCall ==
    /\ runner = "constructed"
    /\ calls < MaxToolCalls
    /\ \E tool \in Tools, language \in ToolLanguages,
          failing \in SUBSET ConfiguredLanguages, operationFails \in BOOLEAN :
         LET e == ensure_configured(config, language_servers, attempts,
                                    lsp_toml, failing)
         IN  /\ config' = e.config
             /\ loadedBy' = IF e.config # config THEN "_ensure_configured"
                            ELSE loadedBy
             /\ language_servers' = e.language_servers
             /\ attempts' = e.attempts
             /\ ensured' = IF e.result THEN "True" ELSE "False"
             /\ lastResult' = ToolBody(tool, language, e.result,
                                       e.language_servers, operationFails)
    /\ calls' = calls + 1
    /\ UNCHANGED <<lsp_toml, runner>>
    /\ UNCHANGED notRunner

\* _ensure_configured is called by itself.
EnsureConfigured ==
    /\ runner = "constructed"
    /\ calls < MaxToolCalls
    /\ \E failing \in SUBSET ConfiguredLanguages :
         LET e == ensure_configured(config, language_servers, attempts,
                                    lsp_toml, failing)
         IN  /\ config' = e.config
             /\ loadedBy' = IF e.config # config THEN "_ensure_configured"
                            ELSE loadedBy
             /\ language_servers' = e.language_servers
             /\ attempts' = e.attempts
             /\ ensured' = IF e.result THEN "True" ELSE "False"
    /\ calls' = calls + 1
    /\ UNCHANGED <<lsp_toml, runner, lastResult>>
    /\ UNCHANGED notRunner

\* The user creates, rewrites or removes lsp.toml.
WriteToml ==
    /\ \E file \in Files :
         /\ file # lsp_toml
         /\ lsp_toml' = file
    /\ UNCHANGED <<runner, config, loadedBy, language_servers, attempts,
                   ensured, lastResult, calls>>
    /\ UNCHANGED notRunner

RunnerSpecInit == RunnerInit /\ JdtlsInit /\ IdleBut("runner")

RunnerNext ==
    \/ Construct
    \/ ToolCall
    \/ EnsureConfigured
    \/ WriteToml

RunnerSpec == RunnerSpecInit /\ [][RunnerNext]_vars

\* The step is a tool call.
ToolCalled == lastResult'.call = calls + 1

\* C16: constructing MCPRunner while lsp.toml does not exist succeeds,
\* leaves the configuration unset and creates no server; while the file
\* does not exist and no configuration is loaded, a tool call returns the
\* result with status "error" and the configuration instructions, raises
\* nothing and creates no server.
C16_NoTomlNoServers ==
    [][/\ (runner = "none" /\ runner' # "none" /\ ~lsp_toml.exists) =>
             /\ runner' = "constructed"
             /\ config' = NoConfig
             /\ language_servers' = {}
             /\ attempts' = <<>>
       /\ (ToolCalled /\ ~lsp_toml.exists /\ ~config.loaded) =>
             /\ lastResult'.status = "error"
             /\ lastResult'.message = "get_configuration_error_message"
             /\ ensured' = "False"
             /\ UNCHANGED <<config, language_servers, attempts>>]_vars

\* Two tool calls were answered with the instructions; nothing was loaded
\* or started.
C16_Witness ==
    /\ runner = "constructed"
    /\ ~lsp_toml.exists
    /\ loadedBy = "none"
    /\ lastResult.status = "error"
    /\ lastResult.call = 2
    /\ language_servers = {}
    /\ attempts = <<>>

\* The configuration a valid file describes.
Describes(file, cfg) ==
    /\ cfg.loaded
    /\ cfg.language_servers =
          [i \in DOMAIN file.lsp.language_servers |->
              lower(file.lsp.language_servers[i])]
    /\ DOMAIN cfg.servers = Range(cfg.language_servers)
    /\ \A l \in DOMAIN cfg.servers :
          /\ cfg.servers[l].language = l
          /\ cfg.servers[l].roots = file.lsp.sections[l].roots.items
          /\ cfg.servers[l].java_version = file.lsp.sections[l].java_version
          /\ cfg.servers[l].gradle_version = file.lsp.sections[l].gradle_version

C18_ConfiguredMeansStarted ==
    ensured = "True" =>
        /\ config.loaded
        /\ DOMAIN config.servers \subseteq Started(language_servers)

\* C19: each language has at most one server that was started, the entry
\* of a language in language_servers is that server and never changes, and
\* a tool call that executed its operation did so on that server.
C19_StartedOnceAndReused ==
    /\ \A i, j \in DOMAIN attempts :
          (/\ attempts[i].language = attempts[j].language
           /\ attempts[i].started /\ attempts[j].started) => i = j
    /\ \A s \in language_servers :
          /\ s.instance \in DOMAIN attempts
          /\ attempts[s.instance].language = s.language
          /\ attempts[s.instance].started
    /\ \A s, t \in language_servers : s.language = t.language => s = t
    /\ lastResult.instance # 0 =>
          [language |-> lastResult.language, instance |-> lastResult.instance]
              \in language_servers
    /\ [][language_servers \subseteq language_servers']_vars

\* The server started by the constructor served the second tool call; no
\* other server was created.
C19_Witness ==
    /\ loadedBy = "__init__"
    /\ lastResult.call = 2
    /\ lastResult.status = "success"
    /\ lastResult.instance = 1
    /\ Len(attempts) = 1

\* An option of a language's section reaches the configuration a server is
\* created from.
Carries(created_from, option, value) ==
    value # None =>
        /\ option \in DOMAIN created_from
        /\ created_from[option] = value

\* C20: every server is created from a configuration that holds the
\* java_version and the gradle_version lsp.toml gives for its language.
C20_VersionsReachServer ==
    \A i \in DOMAIN attempts :
        LET server_config == config.servers[attempts[i].language] IN
          /\ Carries(attempts[i].multilspy_config, "java_version",
                     server_config.java_version)
          /\ Carries(attempts[i].multilspy_config, "gradle_version",
                     server_config.gradle_version)

----------------------------------------------------------------------------
(* FromDictSpec: LSPConfig.from_dict *)

FromDict ==
    /\ lsp_config = NotLoaded
    /\ lsp_config' = from_dict(toml_dict)
    /\ UNCHANGED toml_dict
    /\ UNCHANGED notFromDict

FromDictSpecInit == FromDictInit /\ JdtlsInit /\ IdleBut("from_dict")

FromDictNext == FromDict

FromDictSpec == FromDictSpecInit /\ [][FromDictNext]_vars

\* The languages the list names.
Listed == {lower(toml_dict.language_servers[i]) :
              i \in DOMAIN toml_dict.language_servers}

\* The value of roots in the table of a language; a missing table or key
\* gives the empty list.
RootsGiven(language) ==
    IF language \in DOMAIN toml_dict.sections
    THEN toml_dict.sections[language].roots
    ELSE List(<<>>)

\* C21: from_dict raises when a listed language is unsupported, when roots
\* of a listed language is not a list, is empty, or names a path that is
\* not an existing directory; when it returns, servers has one entry for
\* each distinct listed language, and each entry has at least one root and
\* only existing directories as roots.
C21_FromDictValidates ==
    lsp_config # NotLoaded =>
        /\ (\E l \in Listed :
                \/ l \notin SupportedLanguages
                \/ ~RootsGiven(l).isList
                \/ RootsGiven(l).items = <<>>
                \/ \E i \in DOMAIN RootsGiven(l).items :
                      RootsGiven(l).items[i] \notin Directories)
              => lsp_config.raised
        /\ ~lsp_config.raised =>
              /\ DOMAIN lsp_config.config.servers = Listed
              /\ \A l \in Listed :
                    LET roots == lsp_config.config.servers[l].roots IN
                      /\ Len(roots) >= 1
                      /\ roots = RootsGiven(l).items
                      /\ \A i \in DOMAIN roots : roots[i] \in Directories

\* A list that names python twice and java once gave two entries.
C21_Witness ==
    /\ lsp_config # NotLoaded
    /\ ~lsp_config.raised
    /\ toml_dict.language_servers = <<"Python", "python">>
    /\ DOMAIN lsp_config.config.servers = {"python"}
    /\ Len(lsp_config.config.servers["python"].roots) = 2

----------------------------------------------------------------------------
(* SetupSpec: DependencyConfigManager, DependencyDownloader and
   EclipseJDTLS.setupRuntimeDependencies *)

RECURSIVE Concat(_)
Concat(seqs) == IF seqs = <<>> THEN <<>> ELSE Head(seqs) \o Concat(Tail(seqs))

\* RuntimeDependenciesConfig.initialize_dep: the items of the dictionary it
\* returns, in order.  The key of a leaf itself is the empty str.
RECURSIVE initialize_dep(_)
initialize_dep(d) ==
    IF d.leaf THEN <<[dep_key |-> <<>>, dependency |-> d]>>
    ELSE Concat([i \in DOMAIN d.keys |->
            LET k == d.keys[i]
                initialized == initialize_dep(d.children[k])
            IN  [j \in DOMAIN initialized |->
                   [dep_key |->
                       IF initialized[j].dep_key # <<>>
                       THEN k \o Dot \o initialized[j].dep_key
                       ELSE k,
                    dependency |-> initialized[j].dependency]]])

get_dependencies(dependencies) == initialize_dep(dependencies)

\* DependencyConfigManager._should_download_dependency
should_download_dependency(dep_key, cfg) ==
    \/ contains(dep_key, jdk_versions) /\ cfg.java_version # None
    \/ contains(dep_key, gradle_versions) /\ cfg.gradle_version # None
    \/ contains(dep_key, vscode_java)
    \/ contains(dep_key, intellicode)
    \/ contains(dep_key, gradle) /\ ~contains(dep_key, gradle_versions)

\* DependencyConfigManager._get_destination_path: a path below the static
\* directory that the key determines.
get_destination_path(dep_key) == Str("static") \o dep_key

DownloadPlan(dep_key) ==
    [dependency_key |-> dep_key,
     destination_path |-> get_destination_path(dep_key),
     status |-> PENDING,
     error_message |-> None]

\* DependencyConfigManager.create_download_plan: each key has one
\* Dependency, so one plan.
create_download_plan(dependencies, cfg) ==
    LET all_deps == get_dependencies(dependencies)
        planned(entry) == should_download_dependency(entry.dep_key, cfg)
        chosen == SelectSeq(all_deps, planned)
    IN  [i \in DOMAIN chosen |-> DownloadPlan(chosen[i].dep_key)]

\* get_pending_downloads that also returns the plans that failed.
get_pending_downloads_Retry(plans) ==
    SelectSeq([i \in DOMAIN plans |-> i],
              LAMBDA i : plans[i].status \in {PENDING, FAILED})

\* DependencyConfigManager.get_pending_downloads: the positions of the
\* plans returned.
get_pending_downloads(plans) ==
    SelectSeq([i \in DOMAIN plans |-> i], LAMBDA i : plans[i].status = PENDING)

DependencyState(key, status, path, message) ==
    [dependency_key |-> key, download_status |-> status,
     downloaded_path |-> path, error_message |-> message]

\* mark_download_completed that records no state.
mark_download_completed_NoState(plan, success, states) ==
    [plan |-> [plan EXCEPT !.status = IF success THEN COMPLETED ELSE FAILED],
     dependency_states |-> states]

\* DependencyConfigManager.mark_download_completed
mark_download_completed(plan, success, states) ==
    LET status == IF success THEN COMPLETED ELSE FAILED
        state == DependencyState(plan.dependency_key, status,
                                 IF success THEN plan.destination_path
                                 ELSE NoPath,
                                 IF success THEN None ELSE "Download failed")
    IN  [plan |-> [plan EXCEPT !.status = status],
         dependency_states |->
            [k \in DOMAIN states \cup {plan.dependency_key} |->
                IF k = plan.dependency_key THEN state ELSE states[k]]]

\* How the body of the try of download_dependency ends after the status is
\* IN_PROGRESS: it completes, or mkdir or download_and_extract_archive
\* raises, or _verify_download returns False.
Outcomes == {"ok", "mkdir raised", "download raised", "not verified"}

\* download_dependency that catches nothing.
download_dependency_Uncaught(plan, outcome, states) ==
    IF outcome = "ok"
    THEN LET marked == mark_download_completed(plan, TRUE, states)
         IN  [plan |-> marked.plan, dependency_states |-> marked.dependency_states,
              returned |-> TRUE, raised |-> FALSE]
    ELSE [plan |-> plan, dependency_states |-> states,
          returned |-> FALSE, raised |-> TRUE]

\* DependencyDownloader.download_dependency, from the assignment of
\* IN_PROGRESS on.
download_dependency(plan, outcome, states) ==
    IF outcome = "ok"
    THEN LET marked == mark_download_completed(plan, TRUE, states)
         IN  [plan |-> marked.plan, dependency_states |-> marked.dependency_states,
              returned |-> TRUE, raised |-> FALSE]
    ELSE LET marked ==
               mark_download_completed(
                   [plan EXCEPT !.error_message = "Failed to download"],
                   FALSE, states)
         IN  [plan |-> marked.plan, dependency_states |-> marked.dependency_states,
              returned |-> FALSE, raised |-> FALSE]

\* The loop of download_all_pending that ends at the first failure.
next_plan_StopAtFailure(i, success, plans) ==
    IF success THEN i + 1 ELSE Len(plans) + 1

\* The loop of download_all_pending: the plan after the i-th.
next_plan(i, success, plans) == i + 1

\* create_download_plan, as setupRuntimeDependencies calls it.
CreateDownloadPlan ==
    /\ download_plans = <<>>
    /\ download_plans' = create_download_plan(runtime_deps, multilspy_config)
    /\ UNCHANGED <<multilspy_config, runtime_deps, dependency_states, downloader,
                   downloads, returns, setup, lookups, process_launch_info>>
    /\ UNCHANGED notSetup

\* download_all_pending is called: with nothing pending it returns True.
DownloadAllPending ==
    /\ download_plans # <<>>
    /\ downloader = Idle
    /\ setup = NotRun
    /\ Len(returns) < MaxDownloadCalls
    /\ LET found == get_pending_downloads(download_plans) IN
         IF found = <<>>
         THEN /\ returns' = Append(returns, [pending |-> {}, result |-> TRUE])
              /\ UNCHANGED downloader
         ELSE /\ downloader' = [pc |-> "call", pending |-> found, i |-> 1,
                                all_succeeded |-> TRUE]
              /\ UNCHANGED returns
    /\ UNCHANGED <<multilspy_config, runtime_deps, download_plans,
                   dependency_states, downloads, setup, lookups,
                   process_launch_info>>
    /\ UNCHANGED notSetup

\* download_dependency, up to the assignment of IN_PROGRESS.
BeginDownload ==
    /\ downloader.pc = "call"
    /\ downloader.i <= Len(downloader.pending)
    /\ LET p == downloader.pending[downloader.i] IN
         download_plans' = [download_plans EXCEPT ![p].status = IN_PROGRESS]
    /\ downloader' = [downloader EXCEPT !.pc = "download"]
    /\ UNCHANGED <<multilspy_config, runtime_deps, dependency_states, downloads,
                   returns, setup, lookups, process_launch_info>>
    /\ UNCHANGED notSetup

\* The rest of download_dependency, and the loop step of
\* download_all_pending after it.
FinishDownload ==
    /\ downloader.pc = "download"
    /\ \E outcome \in Outcomes :
         LET p == downloader.pending[downloader.i]
             r == download_dependency(download_plans[p], outcome,
                                      dependency_states)
         IN  /\ download_plans' = [download_plans EXCEPT ![p] = r.plan]
             /\ dependency_states' = r.dependency_states
             /\ downloads' =
                   Append(downloads,
                          [dependency_key |-> download_plans[p].dependency_key,
                           outcome |-> outcome, returned |-> r.returned,
                           raised |-> r.raised, call |-> Len(returns) + 1])
             /\ downloader' =
                   IF r.raised THEN [pc |-> "raised"]
                   ELSE [downloader EXCEPT
                           !.pc = "call",
                           !.i = next_plan(@, r.returned, downloader.pending),
                           !.all_succeeded = @ /\ r.returned]
    /\ UNCHANGED <<multilspy_config, runtime_deps, returns, setup, lookups,
                   process_launch_info>>
    /\ UNCHANGED notSetup

\* download_all_pending returns all_succeeded.
ReturnDownloadAllPending ==
    /\ downloader.pc = "call"
    /\ downloader.i > Len(downloader.pending)
    /\ returns' = Append(returns,
                         [pending |-> {download_plans[p].dependency_key :
                                          p \in Range(downloader.pending)},
                          result |-> downloader.all_succeeded])
    /\ downloader' = Idle
    /\ UNCHANGED <<multilspy_config, runtime_deps, download_plans,
                   dependency_states, downloads, setup, lookups,
                   process_launch_info>>
    /\ UNCHANGED notSetup

\* DependencyConfigManager.get_dependency: the states whose key is part of
\* the key asked for.
DependencyConfigManager_get_dependency(states, key) ==
    [k \in {k \in DOMAIN states : contains(key, k)} |-> states[k]]

\* EclipseJDTLS._get_dependency_state: of the states get_dependency gives,
\* one whose key has the name as a part.
get_dependency_state(states, name) ==
    LET deps == DependencyConfigManager_get_dependency(states, name)
        found == {k \in DOMAIN deps : contains(k, name)}
    IN  IF found = {} THEN NoState ELSE deps[CHOOSE k \in found : TRUE]

\* DependencyState.is_downloaded
is_downloaded(state) == state.download_status = COMPLETED

\* The test that lets every state pass.
not_downloaded_Never(state) == FALSE

\* not state or not state.is_downloaded()
not_downloaded(state) == state = NoState \/ ~is_downloaded(state)

\* RuntimeDependenciesConfig.get_dependency: the entry whose key is d, or
\* the entries whose key has d as a part; each value is a list of one
\* Dependency.
RuntimeDependenciesConfig_get_dependency(dependencies, d) ==
    LET set_deps == get_dependencies(dependencies)
        keys == {set_deps[i].dep_key : i \in DOMAIN set_deps}
        chosen == IF d \in keys THEN {d} ELSE {k \in keys : contains(k, d)}
    IN  [k \in chosen |->
           <<(CHOOSE e \in Range(set_deps) : e.dep_key = k).dependency>>]

\* get_extra_field: the str under field_name, or ""
get_extra_field(dep_dict, field_name) ==
    IF field_name \in DOMAIN dep_dict THEN dep_dict[field_name] ELSE <<>>

RuntimeError(message) ==
    [status |-> "raised", error |-> "RuntimeError", message |-> message]

AttributeError == [status |-> "raised", error |-> "AttributeError"]

\* The dictionary of vscode-java for the platform: .get(...) gives {} where
\* a key is missing.
vscode_java_meta_dict(dependencies) ==
    IF /\ vscode_java \in Range(dependencies.keys)
       /\ ~dependencies.children[vscode_java].leaf
       /\ platform_id \in Range(dependencies.children[vscode_java].keys)
    THEN [k \in {Str("jre_home_path"), Str("jre_path"),
                 Str("jdtls_launcher_jar_path")} |-> k]
    ELSE [k \in {} |-> <<>>]

\* The names _extract_dependency_paths asks _get_dependency_state for.
gradle_name(cfg) ==
    gradle_versions \o Dot
        \o Str(IF cfg.gradle_version # None THEN cfg.gradle_version
               ELSE DefaultGradleVersion)

jdk_name(cfg) ==
    jdk_versions \o Dot \o Str(cfg.java_version) \o Dot \o platform_id

\* Lines 331-345: jre_home_path and jre_path after the custom JDK is
\* looked at.
jdk_paths(states, cfg, dependencies, bundled) ==
    IF cfg.java_version = None THEN bundled
    ELSE LET jdk_state == get_dependency_state(states, jdk_name(cfg)) IN
         IF jdk_state = NoState \/ ~is_downloaded(jdk_state) THEN bundled
         ELSE LET jdk_path == jdk_state.downloaded_path
                  jdk_meta_dict ==
                      RuntimeDependenciesConfig_get_dependency(
                          dependencies, jdk_state.dependency_key)
              IN  IF DOMAIN jdk_meta_dict = {} THEN bundled
                  ELSE [jre_home_path |->
                            jdk_path \o get_extra_field(jdk_meta_dict,
                                                        Str("jre_home_path")),
                        jre_path |->
                            jdk_path \o get_extra_field(jdk_meta_dict,
                                                        Str("jre_path"))]

\* EclipseJDTLS._extract_dependency_paths: how it ends.
extract_dependency_paths(states, cfg, dependencies) ==
    LET vscode_java_state == get_dependency_state(states, vscode_java)
        gradle_state == get_dependency_state(states, gradle_name(cfg))
        intellicode_state == get_dependency_state(states, intellicode)
        meta == vscode_java_meta_dict(dependencies)
    IN  IF not_downloaded(vscode_java_state)
        THEN RuntimeError("vscode-java dependency was not downloaded")
        ELSE IF vscode_java_state = NoState THEN AttributeError
        ELSE IF not_downloaded(gradle_state)
        THEN RuntimeError("Gradle was not downloaded")
        ELSE IF gradle_state = NoState THEN AttributeError
        ELSE IF DOMAIN meta = {}
        THEN RuntimeError("No metadata found for vscode-java")
        ELSE IF not_downloaded(intellicode_state)
        THEN RuntimeError("Intellicode dependency was not downloaded")
        ELSE IF intellicode_state = NoState THEN AttributeError
        ELSE LET vscode_java_path == vscode_java_state.downloaded_path
                 bundled ==
                     [jre_home_path |->
                          vscode_java_path
                              \o get_extra_field(meta, Str("jre_home_path")),
                      jre_path |->
                          vscode_java_path
                              \o get_extra_field(meta, Str("jre_path"))]
                 jre == jdk_paths(states, cfg, dependencies, bundled)
                 intellicode_meta_dict ==
                     RuntimeDependenciesConfig_get_dependency(
                         dependencies, intellicode_state.dependency_key)
             IN  IF DOMAIN intellicode_meta_dict = {}
                 THEN RuntimeError("No metadata found for intellicode")
                 ELSE [status |-> "returned",
                       paths |->
                         [gradle_path |-> gradle_state.downloaded_path,
                          jre_path |-> jre.jre_path,
                          jre_home_path |-> jre.jre_home_path,
                          jdtls_launcher_jar_path |->
                              vscode_java_path
                                  \o get_extra_field(
                                         meta, Str("jdtls_launcher_jar_path")),
                          intellicode_jar_path |->
                              intellicode_state.downloaded_path
                                  \o get_extra_field(
                                         intellicode_meta_dict,
                                         Str("intellicode_jar_path"))]]

\* The names _get_dependency_state was asked for when
\* _extract_dependency_paths ended in this way.
names_asked(cfg, ended) ==
    IF ended.status = "raised" /\ ended.error = "RuntimeError"
       /\ ended.message = "vscode-java dependency was not downloaded"
    THEN {vscode_java}
    ELSE IF ended.status = "raised" /\ ended.error = "RuntimeError"
            /\ ended.message \in {"Gradle was not downloaded",
                                   "No metadata found for vscode-java"}
    THEN {vscode_java, gradle_name(cfg)}
    ELSE {vscode_java, gradle_name(cfg), intellicode}
         \cup (IF cfg.java_version # None THEN {jdk_name(cfg)} ELSE {})

\* setupRuntimeDependencies after download_all_pending returned, and the
\* rest of __init__: when the paths are returned the ProcessLaunchInfo is
\* built, when an exception is raised no server object exists.
ExtractDependencyPaths ==
    /\ returns # <<>>
    /\ downloader = Idle
    /\ setup = NotRun
    /\ LET ended == extract_dependency_paths(dependency_states,
                                             multilspy_config, runtime_deps)
       IN  /\ setup' = ended
           /\ lookups' = [name \in names_asked(multilspy_config, ended) |->
                             get_dependency_state(dependency_states, name)]
           /\ process_launch_info' =
                 IF ended.status = "returned"
                 THEN [cmd |-> ended.paths.jre_path,
                       JAVA_HOME |-> ended.paths.jre_home_path]
                 ELSE NoProcessLaunchInfo
    /\ UNCHANGED <<multilspy_config, runtime_deps, download_plans,
                   dependency_states, downloader, downloads, returns>>
    /\ UNCHANGED notSetup

SetupSpecInit == SetupInit /\ JdtlsInit /\ IdleBut("setup")

SetupNext ==
    \/ CreateDownloadPlan
    \/ DownloadAllPending
    \/ BeginDownload
    \/ FinishDownload
    \/ ReturnDownloadAllPending
    \/ ExtractDependencyPaths

SetupSpec == SetupSpecInit /\ [][SetupNext]_vars

\* Every call of download_dependency that started ends, as does every step
\* of the loop of download_all_pending.
FairSetupSpec ==
    SetupSpec /\ WF_vars(BeginDownload) /\ WF_vars(FinishDownload)
              /\ WF_vars(ReturnDownloadAllPending)

\* The plan of a key, and the calls of download_dependency made for a key
\* by the c-th call of download_all_pending.
PlanOf(key) ==
    download_plans[CHOOSE i \in DOMAIN download_plans :
                      download_plans[i].dependency_key = key]

DownloadsOf(key, c) ==
    {i \in DOMAIN downloads :
        downloads[i].dependency_key = key /\ downloads[i].call = c}

\* C22: a call of download_all_pending attempted every plan that was
\* PENDING when it was called, also after a plan failed, and returned True
\* exactly when every one of them was downloaded and verified.
C22_TrueIffAllPendingSucceeded ==
    \A c \in DOMAIN returns :
        /\ \A key \in returns[c].pending : DownloadsOf(key, c) # {}
        /\ returns[c].result =
              (\A key \in returns[c].pending :
                  \E i \in DownloadsOf(key, c) : downloads[i].outcome = "ok")

\* The first plan failed, the later ones were attempted and succeeded, and
\* False was returned.
C22_Witness ==
    /\ returns # <<>>
    /\ returns[1].result = FALSE
    /\ Len(downloads) >= 3
    /\ downloads[1].outcome = "download raised"
    /\ downloads[2].outcome = "ok"
    /\ downloads[3].outcome = "ok"

\* C23: a call of download_dependency raises nothing.  After a failure the
\* plan is FAILED, the state of its key is FAILED with no path and with an
\* error message, and False was returned; after a success the plan is
\* COMPLETED, the state of its key holds the destination path of the plan,
\* and True was returned.
C23_DownloadDependencyNeverRaises ==
    \A i \in DOMAIN downloads :
        LET key == downloads[i].dependency_key IN
          /\ ~downloads[i].raised
          /\ key \in DOMAIN dependency_states
          /\ dependency_states[key].dependency_key = key
          /\ downloads[i].outcome # "ok" =>
                /\ downloads[i].returned = FALSE
                /\ PlanOf(key).status = FAILED
                /\ dependency_states[key].download_status = FAILED
                /\ dependency_states[key].downloaded_path = NoPath
                /\ dependency_states[key].error_message # None
          /\ downloads[i].outcome = "ok" =>
                /\ downloads[i].returned = TRUE
                /\ PlanOf(key).status = COMPLETED
                /\ dependency_states[key].download_status = COMPLETED
                /\ dependency_states[key].downloaded_path =
                      PlanOf(key).destination_path

\* One download failed verification and one succeeded.
C23_Witness ==
    \E i, j \in DOMAIN downloads :
        /\ downloads[i].outcome = "not verified"
        /\ downloads[i].returned = FALSE
        /\ downloads[j].outcome = "ok"
        /\ downloads[j].returned = TRUE

\* The moves of the status of a plan.
StatusMoves ==
    {<<PENDING, IN_PROGRESS>>, <<IN_PROGRESS, COMPLETED>>,
     <<IN_PROGRESS, FAILED>>}

\* C29: the status of a plan changes only from PENDING to IN_PROGRESS and
\* from IN_PROGRESS to COMPLETED or FAILED, so that COMPLETED and FAILED
\* are final; no plan is downloaded twice; at most one plan is
\* IN_PROGRESS.
C29_StatusOnlyMovesForward ==
    /\ [][Len(download_plans) = Len(download_plans') =>
            \A i \in DOMAIN download_plans :
                \/ download_plans'[i].status = download_plans[i].status
                \/ <<download_plans[i].status, download_plans'[i].status>>
                      \in StatusMoves]_vars
    /\ [](\A i, j \in DOMAIN downloads :
            downloads[i].dependency_key = downloads[j].dependency_key => i = j)
    /\ [](\A i, j \in DOMAIN download_plans :
            (/\ download_plans[i].status = IN_PROGRESS
             /\ download_plans[j].status = IN_PROGRESS) => i = j)

\* A second call of download_all_pending returned while a plan was FAILED
\* and another COMPLETED.
C29_Witness ==
    /\ Len(returns) = 2
    /\ returns[2].pending = {}
    /\ \E i, j \in DOMAIN download_plans :
          /\ download_plans[i].status = FAILED
          /\ download_plans[j].status = COMPLETED
    /\ Len(downloads) = Len(download_plans)

\* C30: a call of download_all_pending returns; when it has returned, no
\* plan is PENDING or IN_PROGRESS, and every plan is COMPLETED or FAILED
\* with a state of the same status under its key.
C30_DownloadAllPendingTerminates ==
    /\ [](downloader # Idle => <>(downloader = Idle))
    /\ []((returns # <<>> /\ downloader = Idle) =>
            \A i \in DOMAIN download_plans :
                LET plan == download_plans[i] IN
                  /\ plan.status \in {COMPLETED, FAILED}
                  /\ plan.dependency_key \in DOMAIN dependency_states
                  /\ dependency_states[plan.dependency_key].download_status
                        = plan.status)

\* A call returned after four plans, of which one failed.
C30_Witness ==
    /\ Len(returns) = 1
    /\ downloader = Idle
    /\ Len(download_plans) = 4
    /\ Cardinality({i \in DOMAIN download_plans :
                       download_plans[i].status = FAILED}) = 1
    /\ Cardinality({i \in DOMAIN download_plans :
                       download_plans[i].status = COMPLETED}) = 3

\* A state with status COMPLETED is recorded for the dependency of a name.
HasCompleted(name) ==
    \E k \in DOMAIN dependency_states :
        /\ contains(k, name)
        /\ dependency_states[k].download_status = COMPLETED

NoOverrides ==
    /\ multilspy_config.java_version = None
    /\ multilspy_config.gradle_version = None

\* C24: with no version override, create_download_plan makes a plan for
\* Gradle, and when every download succeeded the state of the default
\* Gradle 7.3.3 is found and setupRuntimeDependencies returns the paths.
C24_DefaultGradleIsSetUp ==
    NoOverrides =>
        /\ download_plans # <<>> =>
              \E i \in DOMAIN download_plans :
                  contains(download_plans[i].dependency_key, gradle)
        /\ (/\ setup # NotRun
            /\ \A i \in DOMAIN download_plans :
                  download_plans[i].status = COMPLETED) =>
              /\ gradle_name(multilspy_config) \in DOMAIN lookups
              /\ lookups[gradle_name(multilspy_config)] # NoState
              /\ setup.status = "returned"

\* The dependencies _extract_dependency_paths requires.
Required == {vscode_java, gradle_name(multilspy_config), intellicode}

C28_StateFoundByName ==
    \A name \in DOMAIN lookups :
        /\ (\E k \in DOMAIN dependency_states : contains(k, name)) =>
              /\ lookups[name] # NoState
              /\ contains(lookups[name].dependency_key, name)
        /\ lookups[name] = NoState =>
              \A k \in DOMAIN dependency_states : ~contains(k, name)

----------------------------------------------------------------------------
(* OverrideSpec: the JDK paths of _extract_dependency_paths and
   _apply_version_overrides *)

\* java_version and gradle_version of the MultilspyConfig under test.
OverrideConfigs ==
    {[java_version |-> java, gradle_version |-> gradle_version] :
        java \in {None, "17", "21"}, gradle_version \in {None, "8.5"}}

\* The plans after download_all_pending returned, when plan i succeeded
\* exactly if ok[i], and the states mark_download_completed recorded.
RECURSIVE states_after(_, _, _)
states_after(plans, ok, i) ==
    IF i = 0 THEN NoStates
    ELSE mark_download_completed(plans[i], ok[i],
                                 states_after(plans, ok, i - 1)).dependency_states

plans_after(plans, ok) ==
    [i \in DOMAIN plans |->
        mark_download_completed(plans[i], ok[i], NoStates).plan]

\* The keys of the initialize parameters the overrides read and write.
Settings == <<"initializationOptions", "settings", "java">>
RuntimesKey == Settings \o <<"configuration", "runtimes">>
GradleHomeKey == Settings \o <<"import", "gradle", "home">>
GradleJavaHomeKey == Settings \o <<"import", "gradle", "java", "home">>

\* f"JavaSE-{version}"
JavaSE(version) == <<"JavaSE-", version>>

\* A dictionary of dictionaries is the function from the paths of its
\* leaves to their values.
EmptyDict == [p \in {} |-> <<>>]

\* EclipseJDTLS._get_nested_value
get_nested_value(d, keys, default) ==
    IF keys \in DOMAIN d THEN d[keys] ELSE default

\* EclipseJDTLS._set_nested_value
set_nested_value(d, keys, value) ==
    [p \in DOMAIN d \cup {keys} |-> IF p = keys THEN value ELSE d[p]]

\* The paths _extract_dependency_paths takes from vscode-java and from
\* Gradle before it looks at the JDK (lines 283-329).
bundled_paths(cfg, dependencies) ==
    LET vscode_java_path ==
            get_destination_path(vscode_java \o Dot \o platform_id)
        meta == vscode_java_meta_dict(dependencies)
    IN  [gradle_path |-> get_destination_path(gradle_name(cfg)),
         jre_home_path |->
             vscode_java_path \o get_extra_field(meta, Str("jre_home_path")),
         jre_path |->
             vscode_java_path \o get_extra_field(meta, Str("jre_path"))]

\* _get_initialize_params, the runtimes and the Gradle homes (443-486).
fill_initialize_params(paths) ==
    LET runtimes == <<[name |-> JavaSE("17"),
                       path |-> paths.jre_home_path,
                       default |-> TRUE]>>
    IN  set_nested_value(
            set_nested_value(
                set_nested_value(EmptyDict, RuntimesKey, runtimes),
                GradleHomeKey, paths.gradle_path),
            GradleJavaHomeKey, paths.jre_path)

\* EclipseJDTLS._apply_version_overrides: the dictionary it leaves.
apply_version_overrides(d, cfg, paths) ==
    LET runtimes == IF cfg.java_version # None
                    THEN get_nested_value(d, RuntimesKey, <<>>)
                    ELSE <<>>
        java == IF runtimes # <<>>
                THEN [d EXCEPT ![RuntimesKey] =
                        [runtimes EXCEPT ![1] =
                            [@ EXCEPT !.name = JavaSE(cfg.java_version),
                                      !.path = paths.jre_home_path]]]
                ELSE d
    IN  IF cfg.gradle_version # None
        THEN set_nested_value(
                 set_nested_value(java, GradleHomeKey, paths.gradle_path),
                 GradleJavaHomeKey, paths.jre_path)
        ELSE java

\* The downloads have ended, each plan completed or failed.
OverrideInit ==
    /\ multilspy_config \in OverrideConfigs
    /\ runtime_deps \in RuntimeDependenciesFiles
    /\ LET plans == create_download_plan(runtime_deps, multilspy_config)
       IN  \E ok \in [DOMAIN plans -> BOOLEAN] :
               /\ download_plans = plans_after(plans, ok)
               /\ dependency_states = states_after(plans, ok, Len(plans))
    /\ downloader = Idle
    /\ downloads = <<>>
    /\ returns = <<>>
    /\ setup = NotRun
    /\ lookups = NoStates
    /\ process_launch_info = NoProcessLaunchInfo
    /\ OverrideIdle

\* _extract_dependency_paths from the custom JDK on (331-385), with the
\* paths of vscode-java and Gradle in hand.
ExtractJdkPaths ==
    /\ runtime_dependency_paths = NoPaths
    /\ LET bundled == bundled_paths(multilspy_config, runtime_deps)
           jre == jdk_paths(dependency_states, multilspy_config, runtime_deps,
                            [jre_home_path |-> bundled.jre_home_path,
                             jre_path |-> bundled.jre_path])
       IN  runtime_dependency_paths' =
               [gradle_path |-> bundled.gradle_path,
                jre_home_path |-> jre.jre_home_path,
                jre_path |-> jre.jre_path]
    /\ UNCHANGED <<params_given, params_applied>>
    /\ UNCHANGED notOverride

\* start_server: initialize_params = self._get_initialize_params(...)
FillInitializeParams ==
    /\ runtime_dependency_paths # NoPaths
    /\ params_given = NotBuilt
    /\ params_given' =
           [status |-> "returned",
            value |-> fill_initialize_params(runtime_dependency_paths)]
    /\ UNCHANGED <<runtime_dependency_paths, params_applied>>
    /\ UNCHANGED notOverride

\* start_server: self._apply_version_overrides(initialize_params)
ApplyVersionOverrides ==
    /\ params_given # NotBuilt
    /\ params_applied = NotApplied
    /\ params_applied' =
           [status |-> "returned",
            value |-> apply_version_overrides(params_given.value,
                                              multilspy_config,
                                              runtime_dependency_paths)]
    /\ UNCHANGED <<runtime_dependency_paths, params_given>>
    /\ UNCHANGED notOverride

OverrideSpecInit == OverrideInit /\ JdtlsInit /\ IdleBut("override")

OverrideNext ==
    \/ ExtractJdkPaths
    \/ FillInitializeParams
    \/ ApplyVersionOverrides

OverrideSpec == OverrideSpecInit /\ [][OverrideNext]_vars

\* The runtimes the initialize parameters advertise.
Advertised ==
    get_nested_value(params_applied.value, RuntimesKey, <<>>)

----------------------------------------------------------------------------
(* TreeSpec: RuntimeDependenciesConfig.get_dependency and the nodes of
   RuntimeDependency *)

\* The calls made on the way to one object.
MaxTrail == 3

\* The releases of pydantic the imports and the Config classes admit:
\* v1 keeps the extra fields of a model in __dict__, v2 keeps them in
\* __pydantic_extra__.
PydanticReleases == {"v1", "v2"}

\* A dictionary with a url and no archiveType.
UrlOnly == [leaf |-> FALSE, url |-> "url"]

NoChildren == [k \in {} |-> UrlOnly]

\* The names asked of get_dependency and the keys asked of get_child.
TreeNames == {jdk_versions, gradle_versions, vscode_java, Str("lombok")}
ChildKeys == {Str("17"), Str("7.3.3"), platform_id, Str("url")}

\* RuntimeDependency(**data)
RuntimeDependency(data) ==
    [url |-> IF "url" \in DOMAIN data THEN data.url ELSE None,
     archive_type |->
         IF "archive_type" \in DOMAIN data THEN data.archive_type ELSE None,
     extra |-> IF "children" \in DOMAIN data THEN data.children
               ELSE NoChildren]

\* RuntimeDependency.is_leaf
is_leaf(node) == node.url # None /\ node.archive_type # None

NoneObject == [kind |-> "None"]
Node(node) == [kind |-> "node", node |-> node]
Failed(exception) == [kind |-> "raised", error |-> exception]

\* RuntimeDependency.get_child: self.__dict__.get(key), and a
\* RuntimeDependency of it when it is a dictionary.
get_child(node, key, release) ==
    IF release = "v1" /\ key \in DOMAIN node.extra
    THEN Node(RuntimeDependency(node.extra[key]))
    ELSE NoneObject

TreeInit ==
    /\ multilspy_config = [java_version |-> None, gradle_version |-> None]
    /\ runtime_deps \in RuntimeDependenciesFiles
    /\ SetupStart
    /\ pydantic \in PydanticReleases
    /\ TreeStart

Made(name, arg) == [call |-> name, arg |-> arg]

\* config.get_dependency(d)
GetDependency ==
    /\ held = TheConfig
    /\ \E d \in TreeNames :
         /\ held' = [kind |-> "dict",
                     value |-> RuntimeDependenciesConfig_get_dependency(
                                   runtime_deps, d)]
         /\ trail' = Append(trail, Made("get_dependency", d))
    /\ UNCHANGED <<pydantic, is_leaf_said>>
    /\ UNCHANGED notTree

\* RuntimeDependency(**data) for an entry of the file, or for a dictionary
\* that has a url only.
ConstructNode ==
    /\ held = TheConfig
    /\ \/ \E d \in Range(runtime_deps.keys) :
            /\ held' = Node(RuntimeDependency(runtime_deps.children[d]))
            /\ trail' = Append(trail, Made("RuntimeDependency", d))
       \/ /\ held' = Node(RuntimeDependency(UrlOnly))
          /\ trail' = Append(trail, Made("RuntimeDependency", Str("url")))
    /\ UNCHANGED <<pydantic, is_leaf_said>>
    /\ UNCHANGED notTree

\* held.get_child(key)
GetChild ==
    /\ held.kind \in {"dict", "node", "None"}
    /\ Len(trail) < MaxTrail
    /\ \E key \in ChildKeys :
         /\ held' = IF held.kind = "node"
                    THEN get_child(held.node, key, pydantic)
                    ELSE Failed("AttributeError")
         /\ trail' = Append(trail, Made("get_child", key))
    /\ is_leaf_said' = "none"
    /\ UNCHANGED pydantic
    /\ UNCHANGED notTree

\* held.is_leaf()
IsLeaf ==
    /\ held.kind \in {"dict", "node", "None"}
    /\ is_leaf_said = "none"
    /\ IF held.kind = "node"
       THEN /\ is_leaf_said' = IF is_leaf(held.node) THEN "True" ELSE "False"
            /\ held' = held
       ELSE /\ is_leaf_said' = "AttributeError"
            /\ held' = Failed("AttributeError")
    /\ UNCHANGED <<pydantic, trail>>
    /\ UNCHANGED notTree

TreeSpecInit == TreeInit /\ JdtlsInit /\ IdleBut("tree")

TreeNext ==
    \/ GetDependency
    \/ ConstructNode
    \/ GetChild
    \/ IsLeaf

TreeSpec == TreeSpecInit /\ [][TreeNext]_vars

\* The entry d of the file is organised as version -> platform -> leaf.
Organised(d) ==
    /\ d \in Range(runtime_deps.keys)
    /\ LET versions == runtime_deps.children[d] IN
       /\ ~versions.leaf
       /\ \A v \in Range(versions.keys) :
             /\ ~versions.children[v].leaf
             /\ \A q \in Range(versions.children[v].keys) :
                   versions.children[v].children[q].leaf

\* The trail went down the entry d: get_dependency(d), then get_child of
\* a version, then get_child of a platform.
WentDown(d) ==
    /\ trail # <<>>
    /\ trail[1] = Made("get_dependency", d)
    /\ Len(trail) >= 2 =>
          /\ trail[2].call = "get_child"
          /\ trail[2].arg \in Range(runtime_deps.children[d].keys)
    /\ Len(trail) >= 3 =>
          /\ trail[3].call = "get_child"
          /\ trail[3].arg \in
                Range(runtime_deps.children[d].children[trail[2].arg].keys)

\* C26: for a dependency organised as name -> version -> platform ->
\* {url, archiveType}, get_dependency(name) gives a node that is not a
\* leaf, get_child(version) on it a node that is not a leaf, and
\* get_child(platform) on that a leaf with the url and the archive type;
\* is_leaf answers True exactly for a node that has both.
C26_TreeIsWalkedToTheLeaf ==
    /\ \A d \in TreeNames :
          (Organised(d) /\ WentDown(d)) =>
              /\ held.kind = "node"
              /\ is_leaf(held.node) <=> Len(trail) = 3
              /\ Len(trail) = 3 =>
                    /\ held.node.url = Leaf.url
                    /\ held.node.archive_type = Leaf.archive_type
    /\ (held.kind = "node" /\ is_leaf_said # "none") =>
          (is_leaf_said = "True" <=>
              (held.node.url # None /\ held.node.archive_type # None))

====
